---- MODULE Spec2Model ----
(***************************************************************************)
(* A model of the IPL opposition-analysis core: the z-score outlier        *)
(* detector (outlier_detector.py), the write-up generator                  *)
(* (writeup_generator.py), the zone mapper (zone_mapper.py) and the wagon  *)
(* wheel geometry (wagon_wheel.py).                                        *)
(*                                                                         *)
(* Numbers are exact: a z-score is kept as its sign together with its      *)
(* square as a fraction num/den, so that comparisons with the threshold    *)
(* and between z-scores are decided by integer cross-multiplication.       *)
(***************************************************************************)
EXTENDS Integers, Sequences, FiniteSets, TLC

VARIABLES batting_df, zone_df, call

vars == <<batting_df, zone_df, call>>

(***************************************************************************)
(* Bounds of the model.                                                    *)
(***************************************************************************)
\* rows of the batting table
NumBatters == 6
\* populated (not all-missing) length/line column pairs of the batting table
MaxCols == 3

(***************************************************************************)
(* pandas values                                                           *)
(***************************************************************************)
\* np.nan in a numeric column; every real metric is >= 0
NaN == 0 - 1

isna(v) == v = NaN

notna(v) == v # NaN

\* Series.dropna()
dropna(s) == SelectSeq(s, notna)

RECURSIVE Sum(_)
Sum(s) == IF s = <<>> THEN 0 ELSE Head(s) + Sum(Tail(s))

RECURSIVE SumSq(_)
SumSq(s) == IF s = <<>> THEN 0 ELSE Head(s) * Head(s) + SumSq(Tail(s))

Range(s) == {s[i] : i \in 1..Len(s)}

(***************************************************************************)
(* outlier_detector.py                                                     *)
(***************************************************************************)
LENGTH_COLS ==
    <<"full", "good_length", "short", "short_of_a_good_length", "yorker", "full_toss">>

LINE_COLS ==
    <<"down_leg", "on_the_stumps", "outside_offstump", "wide_outside_offstump",
      "wide_down_leg">>

\* column names are kept as the tuple of the parts the f-string joins
get_avg_col(dimension, value) == <<"avg_runs_per_dismissal_vs_pitch", dimension, value>>

get_sr_col(dimension, value) == <<"strike_rate_vs_pitch", dimension, value>>

\* str.replace('_', ' ') on the category names of LENGTH_COLS and LINE_COLS
replace_underscore(s) ==
    CASE s = "good_length" -> "good length"
      [] s = "short_of_a_good_length" -> "short of a good length"
      [] s = "full_toss" -> "full toss"
      [] s = "down_leg" -> "down leg"
      [] s = "on_the_stumps" -> "on the stumps"
      [] s = "outside_offstump" -> "outside offstump"
      [] s = "wide_outside_offstump" -> "wide outside offstump"
      [] s = "wide_down_leg" -> "wide down leg"
      [] OTHER -> s

\* a z-score: nan, or sign sgn and square num/den
ZNaN == [nan |-> TRUE, sgn |-> 0, num |-> 0, den |-> 1]

ZZero == [nan |-> FALSE, sgn |-> 0, num |-> 0, den |-> 1]

Sign(d) == IF d > 0 THEN 1 ELSE IF d < 0 THEN 0 - 1 ELSE 0

\* a slip: the standard deviation with divisor n (numpy's std, ddof = 0)
ZOf_Population(x, n, S, Q) ==
    [nan |-> FALSE,
     sgn |-> Sign(n * x - S),
     num |-> (n * x - S) * (n * x - S),
     den |-> n * Q - S * S]

\* (x - mean) / std with mean = S/n and std^2 = (n*Q - S^2) / (n*(n-1)),
\* the sample standard deviation pandas' Series.std() computes (ddof = 1):
\* z = (n*x - S)/n / std, z^2 = (n*x - S)^2 * (n-1) / (n * (n*Q - S^2))
ZOf(x, n, S, Q) ==
    [nan |-> FALSE,
     sgn |-> Sign(n * x - S),
     num |-> (n * x - S) * (n * x - S) * (n - 1),
     den |-> n * (n * Q - S * S)]

\* a slip: no branch for a standard deviation of 0, and 0/0 is nan
calculate_z_scores_NoZeroBranch(df, column) ==
    LET col == df.col[column]
        values == dropna(col)
        n == Len(values)
        S == Sum(values)
        Q == SumSq(values)
    IN  IF n < 2
        THEN [i \in 1..Len(col) |-> ZNaN]
        ELSE [i \in 1..Len(col) |->
                 IF isna(col[i]) \/ n * Q - S * S = 0 THEN ZNaN ELSE ZOf(col[i], n, S, Q)]

\* a slip: 0 and not nan when fewer than 2 values are left
calculate_z_scores_ZeroWhenFew(df, column) ==
    LET col == df.col[column]
        values == dropna(col)
        n == Len(values)
        S == Sum(values)
        Q == SumSq(values)
    IN  IF n < 2 \/ n * Q - S * S = 0
        THEN [i \in 1..Len(col) |-> ZZero]
        ELSE [i \in 1..Len(col) |->
                 IF isna(col[i]) THEN ZNaN ELSE ZOf(col[i], n, S, Q)]

calculate_z_scores(df, column) ==
    LET col == df.col[column]
        values == dropna(col)
        n == Len(values)
        S == Sum(values)
        Q == SumSq(values)
    IN  IF n < 2
        THEN [i \in 1..Len(col) |-> ZNaN]
        ELSE IF n * Q - S * S = 0
             THEN [i \in 1..Len(col) |-> ZZero]
             ELSE [i \in 1..Len(col) |->
                      IF isna(col[i]) THEN ZNaN ELSE ZOf(col[i], n, S, Q)]

\* abs(z)
abs(z) == [z EXCEPT !.sgn = IF z.sgn = 0 THEN 0 ELSE 1]

\* the default threshold 1.5, as the fraction ThresholdNum / ThresholdDen
ThresholdNum == 3

ThresholdDen == 2

\* a slip: abs(z) >= threshold
ExceedsThreshold_AtLeast(z) ==
    z.num * ThresholdDen * ThresholdDen >= ThresholdNum * ThresholdNum * z.den

\* abs(z) > threshold, for a z that is not nan
ExceedsThreshold(z) ==
    z.num * ThresholdDen * ThresholdDen > ThresholdNum * ThresholdNum * z.den

\* a > b for two non-negative z-scores (the sort keys x[3])
ZGreater(a, b) == a.num * b.den > b.num * a.den

\* the positions of the rows df[df['batter_id'] == batter_id]; NaN equals nothing
RowsOf(df, batter_id) ==
    {i \in 1..Len(df.batter_id) : notna(batter_id) /\ df.batter_id[i] = batter_id}

Min(S) == CHOOSE x \in S : \A y \in S : x <= y

\* list.sort(key=lambda x: x[3], reverse=True): descending and stable
RECURSIVE InsertDesc(_, _)
InsertDesc(x, s) ==
    IF s = <<>> THEN <<x>>
    ELSE IF ZGreater(x.z, Head(s).z) THEN <<x>> \o s
         ELSE <<Head(s)>> \o InsertDesc(x, Tail(s))

\* a slip: the lists are left in column order
SortDesc_ColumnOrder(s) == s

RECURSIVE SortDesc(_)
SortDesc(s) ==
    IF s = <<>> THEN <<>>
    ELSE InsertDesc(s[Len(s)], SortDesc(SubSeq(s, 1, Len(s) - 1)))

\* a slip: the weakness is appended without the else
Classify_NoElse(outliers, name, avg_val, sr_val, avg_z) ==
    LET strong ==
          IF avg_z.sgn > 0
          THEN [outliers EXCEPT !.strengths = Append(@,
                  [name |-> name, avg |-> avg_val, sr |-> sr_val, z |-> avg_z])]
          ELSE outliers
    IN  [strong EXCEPT !.weaknesses = Append(@,
            [name |-> name, avg |-> avg_val, sr |-> sr_val, z |-> abs(avg_z)])]

\* an outlier is a strength when its z-score is positive, a weakness otherwise
Classify(outliers, name, avg_val, sr_val, avg_z) ==
    IF avg_z.sgn > 0
    THEN [outliers EXCEPT !.strengths = Append(@,
            [name |-> name, avg |-> avg_val, sr |-> sr_val, z |-> avg_z])]
    ELSE [outliers EXCEPT !.weaknesses = Append(@,
            [name |-> name, avg |-> avg_val, sr |-> sr_val, z |-> abs(avg_z)])]

\* a slip: only a missing average skips the category
RECURSIVE OutlierLoop_AverageOnly(_, _, _, _, _, _)
OutlierLoop_AverageOnly(df, idx, dimension, cols, k, acc) ==
    IF k > Len(cols) THEN acc
    ELSE
      LET avg_col == get_avg_col(dimension, cols[k])
          sr_col == get_sr_col(dimension, cols[k])
          avg_val == df.col[avg_col][idx]
          sr_val == df.col[sr_col][idx]
          avg_z == calculate_z_scores(df, avg_col)[idx]
          name == replace_underscore(cols[k])
          next ==
            IF isna(avg_val) THEN acc
            ELSE IF ~avg_z.nan /\ ExceedsThreshold(avg_z)
                 THEN Classify(acc, name, avg_val, sr_val, avg_z)
                 ELSE acc
      IN  OutlierLoop_AverageOnly(df, idx, dimension, cols, k + 1, next)

\* a slip: the sign of the strike-rate score decides between strength and weakness
RECURSIVE OutlierLoop_StrikeRateSign(_, _, _, _, _, _)
OutlierLoop_StrikeRateSign(df, idx, dimension, cols, k, acc) ==
    IF k > Len(cols) THEN acc
    ELSE
      LET avg_col == get_avg_col(dimension, cols[k])
          sr_col == get_sr_col(dimension, cols[k])
          avg_val == df.col[avg_col][idx]
          sr_val == df.col[sr_col][idx]
          avg_z == calculate_z_scores(df, avg_col)[idx]
          sr_z == calculate_z_scores(df, sr_col)[idx]
          name == replace_underscore(cols[k])
          next ==
            IF isna(avg_val) \/ isna(sr_val) THEN acc
            ELSE IF ~avg_z.nan /\ ExceedsThreshold(avg_z)
                 THEN Classify(acc, name, avg_val, sr_val,
                               [avg_z EXCEPT !.sgn = sr_z.sgn])
                 ELSE acc
      IN  OutlierLoop_StrikeRateSign(df, idx, dimension, cols, k + 1, next)

\* the body of the loop over the categories of one dimension, from category k on;
\* sr_z is computed and not read
RECURSIVE OutlierLoop(_, _, _, _, _, _)
OutlierLoop(df, idx, dimension, cols, k, acc) ==
    IF k > Len(cols) THEN acc
    ELSE
      LET avg_col == get_avg_col(dimension, cols[k])
          sr_col == get_sr_col(dimension, cols[k])
          avg_val == df.col[avg_col][idx]
          sr_val == df.col[sr_col][idx]
          avg_z == calculate_z_scores(df, avg_col)[idx]
          sr_z == calculate_z_scores(df, sr_col)[idx]
          name == replace_underscore(cols[k])
          next ==
            IF isna(avg_val) \/ isna(sr_val) THEN acc
            ELSE IF ~avg_z.nan /\ ExceedsThreshold(avg_z)
                 THEN Classify(acc, name, avg_val, sr_val, avg_z)
                 ELSE acc
      IN  OutlierLoop(df, idx, dimension, cols, k + 1, next)

IndexError == [error |-> "IndexError"]

IsError(r) == "error" \in DOMAIN r

detect_outliers(df, batter_id, dimension, cols) ==
    IF RowsOf(df, batter_id) = {}
    THEN IndexError
    ELSE LET idx == Min(RowsOf(df, batter_id))
             found == OutlierLoop(df, idx, dimension, cols, 1,
                                  [strengths |-> <<>>, weaknesses |-> <<>>])
         IN  [strengths |-> SortDesc(found.strengths),
              weaknesses |-> SortDesc(found.weaknesses)]

detect_length_outliers(df, batter_id) ==
    detect_outliers(df, batter_id, "length", LENGTH_COLS)

detect_line_outliers(df, batter_id) ==
    detect_outliers(df, batter_id, "line", LINE_COLS)

get_all_length_line_stats(df, batter_id) ==
    LET length_outliers == detect_length_outliers(df, batter_id)
        line_outliers == detect_line_outliers(df, batter_id)
    IN  IF IsError(length_outliers) THEN length_outliers
        ELSE IF IsError(line_outliers) THEN line_outliers
        ELSE LET idx == Min(RowsOf(df, batter_id))
             IN  [length_outliers |-> length_outliers,
                  line_outliers |-> line_outliers,
                  length_stats |->
                     [c \in {replace_underscore(l) : l \in Range(LENGTH_COLS)} |->
                        LET l == CHOOSE l \in Range(LENGTH_COLS) : replace_underscore(l) = c
                        IN  [avg |-> df.col[get_avg_col("length", l)][idx],
                             sr |-> df.col[get_sr_col("length", l)][idx]]],
                  line_stats |->
                     [c \in {replace_underscore(l) : l \in Range(LINE_COLS)} |->
                        LET l == CHOOSE l \in Range(LINE_COLS) : replace_underscore(l) = c
                        IN  [avg |-> df.col[get_avg_col("line", l)][idx],
                             sr |-> df.col[get_sr_col("line", l)][idx]]]]

(***************************************************************************)
(* zone_mapper.py                                                          *)
(***************************************************************************)
RHB_ZONES ==
    [z \in 1..8 |->
        CASE z = 1 -> "Fine Leg" [] z = 2 -> "Square Leg" [] z = 3 -> "Mid Wicket"
          [] z = 4 -> "Mid On" [] z = 5 -> "Mid Off" [] z = 6 -> "Covers"
          [] z = 7 -> "Point" [] z = 8 -> "Third Man"]

\* a slip: the left-hander's table also flips zones 6 and 7
LHB_ZONES_Flip67 ==
    [z \in 1..8 |->
        CASE z = 1 -> "Fine Leg" [] z = 2 -> "Square Leg" [] z = 3 -> "Mid Wicket"
          [] z = 4 -> "Mid Off" [] z = 5 -> "Mid On" [] z = 6 -> "Point"
          [] z = 7 -> "Covers" [] z = 8 -> "Third Man"]

LHB_ZONES ==
    [z \in 1..8 |->
        CASE z = 1 -> "Fine Leg" [] z = 2 -> "Square Leg" [] z = 3 -> "Mid Wicket"
          [] z = 4 -> "Mid Off" [] z = 5 -> "Mid On" [] z = 6 -> "Covers"
          [] z = 7 -> "Point" [] z = 8 -> "Third Man"]

\* dict.get(key, default)
DictGet(d, key, default) == IF key \in DOMAIN d THEN d[key] ELSE default

\* a slip: one label for every unknown zone
get_zone_name_Unknown(zone_number, batting_hand) ==
    IF batting_hand = "LHB"
    THEN DictGet(LHB_ZONES, zone_number, "Unknown")
    ELSE DictGet(RHB_ZONES, zone_number, "Unknown")

\* a slip: the batting hand is compared without regard to case
get_zone_name_AnyCase(zone_number, batting_hand) ==
    IF batting_hand \in {"LHB", "lhb"}
    THEN DictGet(LHB_ZONES, zone_number, "Zone " \o ToString(zone_number))
    ELSE DictGet(RHB_ZONES, zone_number, "Zone " \o ToString(zone_number))

get_zone_name(zone_number, batting_hand) ==
    IF batting_hand = "LHB"
    THEN DictGet(LHB_ZONES, zone_number, "Zone " \o ToString(zone_number))
    ELSE DictGet(RHB_ZONES, zone_number, "Zone " \o ToString(zone_number))

get_zone_mapping(batting_hand) ==
    IF batting_hand = "LHB" THEN LHB_ZONES ELSE RHB_ZONES

(***************************************************************************)
(* writeup_generator.py.  A text is the sequence of its lines and a line   *)
(* the sequence of its whitespace-separated words.                         *)
(***************************************************************************)
\* str.split() of the names the insights print
SplitWords(s) ==
    CASE s = "good length" -> <<"good", "length">>
      [] s = "short of a good length" -> <<"short", "of", "a", "good", "length">>
      [] s = "full toss" -> <<"full", "toss">>
      [] s = "down leg" -> <<"down", "leg">>
      [] s = "on the stumps" -> <<"on", "the", "stumps">>
      [] s = "outside offstump" -> <<"outside", "offstump">>
      [] s = "wide outside offstump" -> <<"wide", "outside", "offstump">>
      [] s = "wide down leg" -> <<"wide", "down", "leg">>
      [] s = "Fine Leg" -> <<"Fine", "Leg">>
      [] s = "Square Leg" -> <<"Square", "Leg">>
      [] s = "Mid Wicket" -> <<"Mid", "Wicket">>
      [] s = "Mid On" -> <<"Mid", "On">>
      [] s = "Mid Off" -> <<"Mid", "Off">>
      [] s = "Third Man" -> <<"Third", "Man">>
      [] s = "cover drive" -> <<"cover", "drive">>
      [] OTHER -> <<s>>

\* f"{x:.0f}" of a whole number
Format0f(x) == ToString(x)

\* the words of a text with s appended to its last word
WithSuffix(words, s) ==
    [words EXCEPT ![Len(words)] = @ \o s]

\* sep.join(parts) for a separator of the form "<mark> " or " <word> ": the mark is
\* appended to the last word of every part but the last, the word stands between
RECURSIVE JoinMark(_, _)
JoinMark(parts, mark) ==
    IF parts = <<>> THEN <<>>
    ELSE IF Len(parts) = 1 THEN Head(parts)
    ELSE WithSuffix(Head(parts), mark) \o JoinMark(Tail(parts), mark)

RECURSIVE JoinWord(_, _)
JoinWord(parts, word) ==
    IF parts = <<>> THEN <<>>
    ELSE IF Len(parts) = 1 THEN Head(parts)
    ELSE Head(parts) \o <<word>> \o JoinWord(Tail(parts), word)

\* a slip: the slice is left out
Take_All(s, n) == s

\* s[:n]
Take(s, n) == SubSeq(s, 1, IF Len(s) < n THEN Len(s) ELSE n)

format_metric_first_occurrence(avg, sr) ==
    [form |-> "first", words |-> <<Format0f(avg), "avg;", Format0f(sr), "SR">>]

format_metric_subsequent(avg, sr) ==
    [form |-> "subsequent",
     words |-> <<"(" \o Format0f(avg) \o ";", Format0f(sr) \o ")">>]

None == [label |-> "None"]

\* a slip: the loop reads the first-metric flag and never sets it
RECURSIVE MetricParts_NeverSet(_, _)
MetricParts_NeverSet(items, first_metric_used) ==
    IF items = <<>> THEN [parts |-> <<>>, first_metric_used |-> first_metric_used]
    ELSE LET it == Head(items)
             metric == IF ~first_metric_used
                       THEN format_metric_first_occurrence(it.avg, it.sr)
                       ELSE format_metric_subsequent(it.avg, it.sr)
             rest == MetricParts_NeverSet(Tail(items), first_metric_used)
         IN  [parts |-> <<[name |-> it.name, form |-> metric.form,
                           words |-> SplitWords(it.name) \o metric.words]>> \o rest.parts,
              first_metric_used |-> rest.first_metric_used]

\* the loop over strengths[:2] or weaknesses[:2]: every item printed with its
\* metrics, the first-metric flag read and set on the way
RECURSIVE MetricParts(_, _)
MetricParts(items, first_metric_used) ==
    IF items = <<>> THEN [parts |-> <<>>, first_metric_used |-> first_metric_used]
    ELSE LET it == Head(items)
             metric == IF ~first_metric_used
                       THEN format_metric_first_occurrence(it.avg, it.sr)
                       ELSE format_metric_subsequent(it.avg, it.sr)
             rest == MetricParts(Tail(items), TRUE)
         IN  [parts |-> <<[name |-> it.name, form |-> metric.form,
                           words |-> SplitWords(it.name) \o metric.words]>> \o rest.parts,
              first_metric_used |-> rest.first_metric_used]

PartWords(parts) == [i \in 1..Len(parts) |-> parts[i].words]

\* a slip: the advice names the last weakness printed
AdviceTarget_Last(weak_lines) == weak_lines[Len(weak_lines)]

\* both branches of the advice: f"... {weak_lengths[0]}" for one weakness and for two
AdviceTarget(weak_lines) == weak_lines[1]

\* the shared body of generate_length_insight and generate_line_insight
OutlierInsight(outliers, first_metric_used, label, strong, weak, advise) ==
    LET strengths == outliers.strengths
        weaknesses == outliers.weaknesses
        sp == MetricParts(Take(strengths, 2), first_metric_used)
        wp == MetricParts(Take(weaknesses, 2), sp.first_metric_used)
        weak_names == [i \in 1..Len(Take(weaknesses, 2)) |-> weaknesses[i].name]
        parts ==
            (IF strengths # <<>> THEN <<strong \o JoinWord(PartWords(sp.parts), "and")>>
             ELSE <<>>)
            \o (IF weaknesses # <<>> THEN <<weak \o JoinWord(PartWords(wp.parts), "and")>>
                ELSE <<>>)
            \o (IF weaknesses # <<>> THEN <<advise \o SplitWords(AdviceTarget(weak_names))>>
                ELSE <<>>)
    IN  IF strengths = <<>> /\ weaknesses = <<>>
        THEN [insight |-> None, first_metric_used |-> first_metric_used]
        ELSE [insight |->
                [label |-> label,
                 words |-> <<"**" \o label \o ":**">> \o WithSuffix(JoinMark(parts, "."), "."),
                 strengths |-> sp.parts,
                 weaknesses |-> wp.parts,
                 advice |-> IF weaknesses # <<>> THEN <<AdviceTarget(weak_names)>> ELSE <<>>],
              first_metric_used |-> wp.first_metric_used]

\* a slip: a placeholder stands in for an insight without outliers
generate_length_insight_Placeholder(stats, first_metric_used) ==
    IF stats.length_outliers.strengths = <<>> /\ stats.length_outliers.weaknesses = <<>>
    THEN [insight |-> [label |-> "Length", words |-> <<"**Length:**", "No", "data.">>,
                       strengths |-> <<>>, weaknesses |-> <<>>, advice |-> <<>>],
          first_metric_used |-> first_metric_used]
    ELSE OutlierInsight(stats.length_outliers, first_metric_used, "Length",
                        <<"Strong", "vs">>, <<"weak", "vs">>, <<"Target">>)

generate_length_insight(stats, first_metric_used) ==
    OutlierInsight(stats.length_outliers, first_metric_used, "Length",
                   <<"Strong", "vs">>, <<"weak", "vs">>, <<"Target">>)

\* a slip: the Line insight starts from a flag of its own
generate_line_insight_OwnFlag(stats, first_metric_used) ==
    OutlierInsight(stats.line_outliers, FALSE, "Line",
                   <<"Excels">>, <<"struggles">>, <<"Bowl">>)

generate_line_insight(stats, first_metric_used) ==
    OutlierInsight(stats.line_outliers, first_metric_used, "Line",
                   <<"Excels">>, <<"struggles">>, <<"Bowl">>)

\* a slip: an unstable sort, equal percentages change places
RECURSIVE InsertByPct_Unstable(_, _)
InsertByPct_Unstable(x, s) ==
    IF s = <<>> THEN <<x>>
    ELSE IF x.pct >= Head(s).pct THEN <<x>> \o s
         ELSE <<Head(s)>> \o InsertByPct_Unstable(x, Tail(s))

\* list.sort(key=lambda x: x[1], reverse=True): descending by percentage, stable
RECURSIVE InsertByPct(_, _)
InsertByPct(x, s) ==
    IF s = <<>> THEN <<x>>
    ELSE IF x.pct > Head(s).pct THEN <<x>> \o s
         ELSE <<Head(s)>> \o InsertByPct(x, Tail(s))

RECURSIVE SortByPct(_)
SortByPct(s) ==
    IF s = <<>> THEN <<>>
    ELSE InsertByPct(s[Len(s)], SortByPct(SubSeq(s, 1, Len(s) - 1)))

\* the shot columns of a bowling type in the order of the row's index; the shot
\* name is the column name without its prefix, '_' replaced by ' '
shot_name(shot) == IF shot = "cover_drive" THEN "cover drive" ELSE shot

RECURSIVE ShotLoop(_, _, _, _)
ShotLoop(batter_data, bowling_type, k, shots) ==
    IF k > Len(batter_data.shot_cols) THEN shots
    ELSE LET shot == batter_data.shot_cols[k]
             pct == batter_data.col[<<"pct_shots_by_shot_type_vs", bowling_type, shot>>]
         IN  ShotLoop(batter_data, bowling_type, k + 1,
                      IF notna(pct) /\ pct > 0
                      THEN Append(shots, [name |-> shot_name(shot), pct |-> pct])
                      ELSE shots)

get_top_shots(batter_data, bowling_type, top_n) ==
    Take(SortByPct(ShotLoop(batter_data, bowling_type, 1, <<>>)), top_n)

RECURSIVE ZoneLoop(_, _, _, _, _)
ZoneLoop(batter_data, zone_type, batting_hand, zone_num, zones) ==
    IF zone_num > 8 THEN zones
    ELSE LET pct == batter_data.col[<<"pct_in_wagon_zone", zone_type, zone_num>>]
         IN  ZoneLoop(batter_data, zone_type, batting_hand, zone_num + 1,
                      IF notna(pct) /\ pct > 0
                      THEN Append(zones, [name |-> get_zone_name(zone_num, batting_hand),
                                          pct |-> pct])
                      ELSE zones)

\* a slip: every zone is named from the right-hander's table
get_top_zones_RightHanded(batter_data, zone_type, batting_hand, top_n) ==
    Take(SortByPct(ZoneLoop(batter_data, zone_type, "RHB", 1, <<>>)), top_n)

get_top_zones(batter_data, zone_type, batting_hand, top_n) ==
    Take(SortByPct(ZoneLoop(batter_data, zone_type, batting_hand, 1, <<>>)), top_n)

\* f"{name} ({pct:.0f}%)"
PctWords(x) == SplitWords(x.name) \o <<"(" \o Format0f(x.pct) \o "%)">>

PctParts(xs) == [i \in 1..Len(xs) |-> PctWords(xs[i])]

Names(xs) == [i \in 1..Len(xs) |-> xs[i].name]

generate_shot_insight(batter_data) ==
    LET pace_shots == get_top_shots(batter_data, "pace", 2)
        spin_shots == get_top_shots(batter_data, "spin", 2)
        parts ==
            (IF pace_shots # <<>>
             THEN <<<<"vs", "Pace:">> \o JoinMark(PctParts(pace_shots), ",")>> ELSE <<>>)
            \o (IF spin_shots # <<>>
                THEN <<<<"vs", "Spin:">> \o JoinMark(PctParts(spin_shots), ",")>> ELSE <<>>)
    IN  IF pace_shots = <<>> /\ spin_shots = <<>> THEN None
        ELSE [label |-> "Shots",
              words |-> <<"**Shots:**">> \o WithSuffix(JoinMark(parts, ";"), "."),
              pace |-> pace_shots,
              spin |-> spin_shots]

\* the shared body of generate_boundary_insight and generate_dismissal_insight
ZoneInsight(batter_data, batting_hand, zone_type, label, intro, one, two) ==
    LET top_zones == get_top_zones(batter_data, zone_type, batting_hand, 3)
        top_2_zones == Names(Take(top_zones, 2))
        advice == IF Len(top_2_zones) = 2
                  THEN two \o SplitWords(top_2_zones[1]) \o <<"and">>
                           \o SplitWords(top_2_zones[2])
                  ELSE one \o SplitWords(top_2_zones[1])
    IN  IF top_zones = <<>> THEN None
        ELSE [label |-> label,
              words |-> <<"**" \o label \o ":**">> \o intro
                          \o WithSuffix(JoinMark(PctParts(top_zones), ","), ".")
                          \o WithSuffix(advice, "."),
              zones |-> top_zones,
              advice |-> top_2_zones]

generate_boundary_insight(batter_data, batting_hand) ==
    ZoneInsight(batter_data, batting_hand, "boundaries", "Boundaries",
                <<"Top", "zones:">>, <<"Protect">>, <<"Protect">>)

generate_dismissal_insight(batter_data, batting_hand) ==
    ZoneInsight(batter_data, batting_hand, "caught_dismissals", "Dismissals",
                <<"Catch", "zones:">>, <<"Place", "catcher", "at">>,
                <<"Place", "catchers", "at">>)

\* "\n\n".join(insights).split('\n'): the insights with an empty line between
RECURSIVE JoinBlankLines(_)
JoinBlankLines(insights) ==
    IF insights = <<>> THEN <<<<>>>>
    ELSE IF Len(insights) = 1 THEN <<Head(insights).words>>
    ELSE <<Head(insights).words, <<>>>> \o JoinBlankLines(Tail(insights))

RECURSIVE Flatten(_)
Flatten(lines) == IF lines = <<>> THEN <<>> ELSE Head(lines) \o Flatten(Tail(lines))

\* len(text.split())
count_words(text) == Len(Flatten(text))

\* len([line for line in text.split('\n') if line.strip()])
NonEmpty(line) == line # <<>>

\* a slip: the filter is left out, the separator lines are counted too
count_lines_All(text) == Len(text)

count_lines(text) == Len(SelectSeq(text, NonEmpty))

\* a slip: an insight is appended only while the list is empty
AppendIf_FirstOnly(insights, insight) ==
    IF insight = None \/ insights # <<>> THEN insights ELSE Append(insights, insight)

\* a slip: an insight is put in front of the list
AppendIf_InFront(insights, insight) ==
    IF insight # None THEN <<insight>> \o insights ELSE insights

\* `if insight: insights.append(insight)`
AppendIf(insights, insight) ==
    IF insight # None THEN Append(insights, insight) ELSE insights

generate_writeup(df, batter_data) ==
    LET batter_id == batter_data.batter_id
        batter_name == batter_data.bat
        batting_hand == batter_data.batting_hand
        stats == get_all_length_line_stats(df, batter_id)
        length == generate_length_insight(stats, FALSE)
        line == generate_line_insight(stats, length.first_metric_used)
        insights ==
            AppendIf(AppendIf(AppendIf(AppendIf(AppendIf(<<>>,
                length.insight),
                line.insight),
                generate_shot_insight(batter_data)),
                generate_boundary_insight(batter_data, batting_hand)),
                generate_dismissal_insight(batter_data, batting_hand))
        writeup_text == JoinBlankLines(insights)
    IN  IF IsError(stats) THEN stats
        ELSE [batter_name |-> batter_name,
              batting_hand |-> batting_hand,
              writeup |-> writeup_text,
              insights |-> insights,
              word_count |-> count_words(writeup_text),
              line_count |-> count_lines(writeup_text),
              num_insights |-> Len(insights)]

(***************************************************************************)
(* The batting table.  Row i is batter i; the table is built once and      *)
(* read afterwards.  A populated column pair follows one of the column     *)
(* kinds below; the last row is the batter the kinds single out.           *)
(***************************************************************************)
Batters == 1..NumBatters

\* the kinds of an average / strike-rate column pair
KindsAll ==
    {"none", "flat", "high", "low", "high2", "low2", "first", "edge", "four", "single",
     "srmiss"}

\* the average of row i in a column of the kind
KindAvg(kind, i) ==
    CASE kind = "none" -> NaN
      [] kind = "flat" -> 3
      [] kind = "high" -> IF i = NumBatters THEN 9 ELSE 1
      [] kind = "srmiss" -> IF i = NumBatters THEN 9 ELSE 1
      [] kind = "low" -> IF i = NumBatters THEN 1 ELSE 8
      [] kind = "high2" ->
            IF i = NumBatters THEN 9 ELSE IF i = NumBatters - 1 THEN 2 ELSE 1
      [] kind = "low2" ->
            IF i = NumBatters THEN 1 ELSE IF i = NumBatters - 1 THEN 7 ELSE 8
      [] kind = "edge" -> IF i = NumBatters THEN 9 ELSE IF i = 1 THEN NaN ELSE 1
      [] kind = "first" -> IF i = 1 THEN 9 ELSE 1
      [] kind = "four" ->
            IF i = NumBatters THEN 9 ELSE IF i >= NumBatters - 3 THEN 1 ELSE NaN
      [] kind = "single" -> IF i = NumBatters THEN 4 ELSE NaN

\* the strike rate of row i in a column of the kind
KindSr(kind, i) ==
    CASE kind = "none" -> NaN
      [] kind = "srmiss" -> IF i = NumBatters THEN NaN ELSE 100 + 10 * i
      [] kind = "single" -> IF i = NumBatters THEN 150 ELSE NaN
      [] kind = "edge" -> IF i = 1 THEN NaN ELSE 100 + 10 * i
      [] OTHER -> 100 + 10 * i

\* the kind of the k-th column of a dimension when the first Len(f) are populated
KindAt(f, k) == IF k <= Len(f) THEN f[k] ELSE "none"

IndexOf(cols, c) == CHOOSE k \in 1..Len(cols) : cols[k] = c

\* the shot-type columns of the table, in column order
ShotColumns == <<"cover_drive", "pull", "sweep">>

MetricKeys ==
    {get_avg_col("length", c) : c \in Range(LENGTH_COLS)}
      \cup {get_sr_col("length", c) : c \in Range(LENGTH_COLS)}
      \cup {get_avg_col("line", c) : c \in Range(LINE_COLS)}
      \cup {get_sr_col("line", c) : c \in Range(LINE_COLS)}

ShotKeys ==
    {<<"pct_shots_by_shot_type_vs", t, c>> : t \in {"pace", "spin"}, c \in Range(ShotColumns)}

ZoneKeys ==
    {<<"pct_in_wagon_zone", t, z>> : t \in {"boundaries", "caught_dismissals"}, z \in 1..8}

\* the value of row i in a metric column, fL and fl the kinds of the populated
\* length and line columns
MetricValue(key, i, fL, fl) ==
    LET kind == IF key[2] = "length"
                THEN KindAt(fL, IndexOf(LENGTH_COLS, key[3]))
                ELSE KindAt(fl, IndexOf(LINE_COLS, key[3]))
    IN  IF key[1] = "avg_runs_per_dismissal_vs_pitch"
        THEN KindAvg(kind, i) ELSE KindSr(kind, i)

\* the shot and zone percentages of a row: every row of a table carries the same
ShotPct(shots, bowling_type) ==
    CASE shots = "none" -> <<NaN, NaN, NaN>>
      [] shots = "pace" -> IF bowling_type = "pace" THEN <<20, 40, 40>> ELSE <<0, NaN, 0>>
      [] shots = "both" -> IF bowling_type = "pace" THEN <<20, 40, 40>> ELSE <<NaN, 15, 0>>

ZonePct(zones) ==
    CASE zones = "none" -> <<NaN, NaN, NaN, NaN, NaN, NaN, NaN, NaN>>
      [] zones = "zero" -> <<0, 0, 0, 0, 0, 0, 0, 0>>
      [] zones = "one" -> <<0, 0, 0, 0, 100, NaN, 0, 0>>
      [] zones = "many" -> <<10, 0, 25, 30, 30, NaN, 5, 0>>

PlainStyle == [shots |-> "none", boundaries |-> "none", caught_dismissals |-> "none"]

Styles ==
    [shots : {"none", "pace", "both"}, boundaries : {"none", "many"},
     caught_dismissals : {"zero", "one"}]

ExtraValue(key, style) ==
    IF key[1] = "pct_shots_by_shot_type_vs"
    THEN ShotPct(style.shots, key[2])[IndexOf(ShotColumns, key[3])]
    ELSE ZonePct(style[key[2]])[key[3]]

\* the sequences of at most n kinds
KindSeqs(kinds, n) == UNION {[1..k -> kinds] : k \in 0..n}

BattingFrames(kinds, styles) ==
    {[batter_id |-> [i \in Batters |-> i],
      shot_cols |-> ShotColumns,
      col |-> [key \in MetricKeys \cup ShotKeys \cup ZoneKeys |->
                 [i \in Batters |->
                    IF key \in MetricKeys THEN MetricValue(key, i, p[1], p[2])
                    ELSE ExtraValue(key, style)]]] :
        p \in {p \in KindSeqs(kinds, MaxCols) \X KindSeqs(kinds, MaxCols) :
                 Len(p[1]) + Len(p[2]) <= MaxCols},
        style \in styles}

NoFrame == [batter_id |-> <<>>, shot_cols |-> <<>>, col |-> <<>>]

NoCall == [op |-> "none"]

\* the record of a finished call: what it returned, or the exception it raised
Returned(c, r) ==
    c @@ (IF IsError(r) THEN [raised |-> r.error, result |-> None]
          ELSE [raised |-> "none", result |-> r])

(***************************************************************************)
(* data_loader.py: the team table names the players write-ups are asked    *)
(* for; merge_data joins it to the batting table on p_bat = batter_id and  *)
(* keeps the players the batting table does not hold, with missing values. *)
(***************************************************************************)
team_df ==
    [k \in 1..4 |->
        LET id == CASE k = 1 -> 1 [] k = 2 -> NumBatters - 1
                    [] k = 3 -> NumBatters [] k = 4 -> NumBatters + 1
        IN  [p_bat |-> id,
             bat |-> "Batter " \o ToString(id),
             bat_hand |-> IF id % 2 = 0 THEN "LHB" ELSE "RHB"]]

merge_data(df, team) ==
    [k \in 1..Len(team) |->
        LET rows == RowsOf(df, team[k].p_bat)
        IN  [batter_id |-> IF rows = {} THEN NaN ELSE team[k].p_bat,
             bat |-> team[k].bat,
             batting_hand |-> team[k].bat_hand,
             shot_cols |-> df.shot_cols,
             col |-> [key \in DOMAIN df.col |->
                        IF rows = {} THEN NaN ELSE df.col[key][Min(rows)]]]]

(***************************************************************************)
(* Spec: outlier detection over every batting table of the family, for     *)
(* every batter id, one of them absent from the table.                     *)
(***************************************************************************)
BatterIds == 1..(NumBatters + 1)

KindsDetect == {"flat", "high", "low", "high2", "low2"}

Init ==
    /\ batting_df \in BattingFrames(KindsDetect, {PlainStyle})
    /\ zone_df = NoFrame
    /\ call = NoCall

GetAllLengthLineStats ==
    \E batter_id \in BatterIds :
        /\ call' = Returned([op |-> "get_all_length_line_stats", batter_id |-> batter_id],
                             get_all_length_line_stats(batting_df, batter_id))
        /\ UNCHANGED <<batting_df, zone_df>>

Next == GetAllLengthLineStats

Spec == Init /\ [][Next]_vars

(***************************************************************************)
(* SpecWriteup: write-up generation for the players of the team table.     *)
(***************************************************************************)
KindsWriteup == {"high", "low", "low2"}

InitWriteup ==
    /\ batting_df \in BattingFrames(KindsWriteup, Styles)
    /\ zone_df = NoFrame
    /\ call = NoCall

GenerateWriteup ==
    \E k \in 1..Len(team_df) :
        LET batter_data == merge_data(batting_df, team_df)[k]
        IN  /\ call' = Returned([op |-> "generate_writeup", batter_id |-> team_df[k].p_bat],
                                 generate_writeup(batting_df, batter_data))
            /\ UNCHANGED <<batting_df, zone_df>>

NextWriteup == GenerateWriteup

SpecWriteup == InitWriteup /\ [][NextWriteup]_vars

(***************************************************************************)
(* SpecMissing: outlier detection and write-up generation over tables with *)
(* missing values: a batter without any length or line metric, a column    *)
(* with one value only, a batter without a strike rate.                    *)
(***************************************************************************)
KindsMissing == {"edge", "single", "srmiss"}

RichStyle == [shots |-> "both", boundaries |-> "many", caught_dismissals |-> "one"]

InitMissing ==
    /\ batting_df \in BattingFrames(KindsMissing, {PlainStyle, RichStyle})
    /\ zone_df = NoFrame
    /\ call = NoCall

NextMissing == GetAllLengthLineStats \/ GenerateWriteup

SpecMissing == InitMissing /\ [][NextMissing]_vars

(***************************************************************************)
(* SpecConcurrent: two calls of generate_writeup for different players of  *)
(* the team table, over one batting table, their steps interleaved.  A     *)
(* call keeps its locals (stats, first_metric_used, insights) in its own   *)
(* frame; call.flags holds the one-element lists first_metric_used, one    *)
(* cell per list object.                                                   *)
(***************************************************************************)
Calls == {1, 2}

KindsConcurrent == {"high", "first"}

\* a slip: first_metric_used is one list of the module, shared by every call
FlagCell_Shared(c) == 1

\* the list object `first_metric_used = [False]` of call c: a new list per call
FlagCell(c) == c

\* the dictionary generate_writeup returns for the insights it collected
WriteupDict(batter_data, insights) ==
    LET writeup_text == JoinBlankLines(insights)
    IN  [batter_name |-> batter_data.bat,
         batting_hand |-> batter_data.batting_hand,
         writeup |-> writeup_text,
         insights |-> insights,
         word_count |-> count_words(writeup_text),
         line_count |-> count_lines(writeup_text),
         num_insights |-> Len(insights)]

NewFrame(k) ==
    [k |-> k, pc |-> "start", stats |-> None, insights |-> <<>>,
     raised |-> "none", result |-> None]

InitConcurrent ==
    /\ batting_df \in BattingFrames(KindsConcurrent, {RichStyle})
    /\ zone_df = NoFrame
    /\ call \in {[op |-> "concurrent",
                  frames |-> <<NewFrame(p[1]), NewFrame(p[2])>>,
                  flags |-> [cell \in Calls |-> FALSE]] :
                    p \in {p \in (1..Len(team_df)) \X (1..Len(team_df)) : p[1] < p[2]}}

BatterDataIn(c) == merge_data(batting_df, team_df)[call.frames[c].k]

\* stats = get_all_length_line_stats(...); first_metric_used = [False]; insights = []
StartWriteup ==
    \E c \in Calls :
        /\ call.frames[c].pc = "start"
        /\ LET stats == get_all_length_line_stats(batting_df, BatterDataIn(c).batter_id)
           IN  IF IsError(stats)
               THEN call' = [call EXCEPT !.frames[c].pc = "done",
                                         !.frames[c].raised = stats.error]
               ELSE call' = [call EXCEPT !.frames[c].pc = "length",
                                         !.frames[c].stats = stats,
                                         !.flags[FlagCell(c)] = FALSE]
        /\ UNCHANGED <<batting_df, zone_df>>

LengthStep ==
    \E c \in Calls :
        /\ call.frames[c].pc = "length"
        /\ LET r == generate_length_insight(call.frames[c].stats, call.flags[FlagCell(c)])
           IN  call' = [call EXCEPT !.frames[c].pc = "line",
                                    !.frames[c].insights = AppendIf(@, r.insight),
                                    !.flags[FlagCell(c)] = r.first_metric_used]
        /\ UNCHANGED <<batting_df, zone_df>>

LineStep ==
    \E c \in Calls :
        /\ call.frames[c].pc = "line"
        /\ LET r == generate_line_insight(call.frames[c].stats, call.flags[FlagCell(c)])
           IN  call' = [call EXCEPT !.frames[c].pc = "shots",
                                    !.frames[c].insights = AppendIf(@, r.insight),
                                    !.flags[FlagCell(c)] = r.first_metric_used]
        /\ UNCHANGED <<batting_df, zone_df>>

ShotStep ==
    \E c \in Calls :
        /\ call.frames[c].pc = "shots"
        /\ call' = [call EXCEPT !.frames[c].pc = "boundaries",
                                !.frames[c].insights =
                                   AppendIf(@, generate_shot_insight(BatterDataIn(c)))]
        /\ UNCHANGED <<batting_df, zone_df>>

BoundaryStep ==
    \E c \in Calls :
        /\ call.frames[c].pc = "boundaries"
        /\ call' = [call EXCEPT !.frames[c].pc = "dismissals",
                                !.frames[c].insights =
                                   AppendIf(@, generate_boundary_insight(
                                                  BatterDataIn(c), BatterDataIn(c).batting_hand))]
        /\ UNCHANGED <<batting_df, zone_df>>

DismissalStep ==
    \E c \in Calls :
        /\ call.frames[c].pc = "dismissals"
        /\ call' = [call EXCEPT !.frames[c].pc = "finish",
                                !.frames[c].insights =
                                   AppendIf(@, generate_dismissal_insight(
                                                  BatterDataIn(c), BatterDataIn(c).batting_hand))]
        /\ UNCHANGED <<batting_df, zone_df>>

FinishWriteup ==
    \E c \in Calls :
        /\ call.frames[c].pc = "finish"
        /\ call' = [call EXCEPT !.frames[c].pc = "done",
                                !.frames[c].result =
                                   WriteupDict(BatterDataIn(c), call.frames[c].insights)]
        /\ UNCHANGED <<batting_df, zone_df>>

NextConcurrent ==
    \/ StartWriteup
    \/ LengthStep
    \/ LineStep
    \/ ShotStep
    \/ BoundaryStep
    \/ DismissalStep
    \/ FinishWriteup

SpecConcurrent == InitConcurrent /\ [][NextConcurrent]_vars

(***************************************************************************)
(* SpecThreshold: outlier detection over tables with z-scores above, below *)
(* and exactly at the threshold (three values of 1 and one of 9 give 1.5). *)
(***************************************************************************)
KindsThreshold == {"four", "high", "low"}

InitThreshold ==
    /\ batting_df \in BattingFrames(KindsThreshold, {PlainStyle})
    /\ zone_df = NoFrame
    /\ call = NoCall

NextThreshold == GetAllLengthLineStats

SpecThreshold == InitThreshold /\ [][NextThreshold]_vars

(***************************************************************************)
(* SpecZone: the zone mapper called with every zone number of a range      *)
(* around 1..8 and with every batting-hand value of Hands.                 *)
(***************************************************************************)
\* zone numbers from -ZoneSlack to 8 + ZoneSlack are looked up
ZoneSlack == 4

ZoneNumbers == (0 - ZoneSlack)..(8 + ZoneSlack)

\* "nan" stands for a missing batting hand
Hands == {"LHB", "RHB", "lhb", "rhb", "Left", "nan"}

InitZone ==
    /\ batting_df = NoFrame
    /\ zone_df = NoFrame
    /\ call = NoCall

GetZoneName ==
    \E zone_number \in ZoneNumbers, batting_hand \in Hands :
        /\ call' = [op |-> "get_zone_name", zone_number |-> zone_number,
                    batting_hand |-> batting_hand, raised |-> "none",
                    result |-> get_zone_name(zone_number, batting_hand)]
        /\ UNCHANGED <<batting_df, zone_df>>

GetZoneMapping ==
    \E batting_hand \in Hands :
        /\ call' = [op |-> "get_zone_mapping", batting_hand |-> batting_hand,
                    raised |-> "none", result |-> get_zone_mapping(batting_hand)]
        /\ UNCHANGED <<batting_df, zone_df>>

NextZone == GetZoneName \/ GetZoneMapping

SpecZone == InitZone /\ [][NextZone]_vars

(***************************************************************************)
(* SpecHand: the zone mapper and generate_writeup called with every        *)
(* batting-hand value of Hands.  The row handed to generate_writeup is a   *)
(* row of the merged table with its batting_hand replaced: merge_data      *)
(* copies the bat_hand column of the team file as it is written there.     *)
(***************************************************************************)
\* no length or line column is populated: the tables differ in their zones
KindsHand == {}

HandStyles ==
    [shots : {"none"}, boundaries : {"none", "many"}, caught_dismissals : {"zero", "one"}]

InitHand ==
    /\ batting_df \in BattingFrames(KindsHand, HandStyles)
    /\ zone_df = NoFrame
    /\ call = NoCall

GenerateForHand ==
    \E k \in 1..Len(team_df), batting_hand \in Hands :
        LET batter_data ==
              [merge_data(batting_df, team_df)[k] EXCEPT !.batting_hand = batting_hand]
        IN  /\ call' = Returned([op |-> "generate_writeup", batter_id |-> team_df[k].p_bat],
                                 generate_writeup(batting_df, batter_data))
            /\ UNCHANGED <<batting_df, zone_df>>

NextHand == GetZoneName \/ GetZoneMapping \/ GenerateForHand

SpecHand == InitHand /\ [][NextHand]_vars

(***************************************************************************)
(* wagon_wheel.py.  Angles are in tenths of a degree; a None in a list of  *)
(* plotly coordinates is written NaN.                                      *)
(***************************************************************************)
ROPE_RADIUS == 100

\* a slip: the angles start at 0 and not at the middle of the first sector
ZONE_MAPPING_FromZero ==
    [z \in 1..8 |-> [label |-> RHB_ZONES[z], theta |-> 450 * (z - 1)]]

ZONE_MAPPING ==
    [z \in 1..8 |-> [label |-> RHB_ZONES[z], theta |-> 225 + 450 * (z - 1)]]

\* the angular offset of a sixes spoke, 5 degrees
SixesOffset == 50

\* a slip: the size is not clamped
MarkerSize_Unclamped(count) == 8 + count * 2

\* min(8 + count * 2, 40)
MarkerSize(count) == IF 8 + count * 2 < 40 THEN 8 + count * 2 ELSE 40

\* a slip: a zone needs more than one boundary for a spoke
Hit_AboveOne(zone_data, kind) == SelectSeq(zone_data, LAMBDA zd : zd[kind] > 1)

\* the zones, in order, whose count of the kind is positive
Hit(zone_data, kind) == SelectSeq(zone_data, LAMBDA zd : zd[kind] > 0)

\* the two traces of the spokes of a kind: the lines, then the end markers
SpokeTraces(zone_data, kind, legend, offset) ==
    LET hit == Hit(zone_data, kind)
        angle(i) == hit[i].theta + offset
    IN  IF hit = <<>> THEN <<>>
        ELSE <<[name |-> legend, mode |-> "lines",
                theta |-> [i \in 1..(3 * Len(hit)) |->
                             IF i % 3 = 0 THEN NaN ELSE angle((i + 2) \div 3)],
                r |-> [i \in 1..(3 * Len(hit)) |->
                         IF i % 3 = 0 THEN NaN ELSE IF i % 3 = 1 THEN 0 ELSE ROPE_RADIUS]],
               [name |-> legend, mode |-> "markers",
                theta |-> [i \in 1..Len(hit) |-> angle(i)],
                r |-> [i \in 1..Len(hit) |-> ROPE_RADIUS],
                size |-> [i \in 1..Len(hit) |-> MarkerSize(hit[i][kind])],
                zone |-> [i \in 1..Len(hit) |-> hit[i].zone],
                text |-> [i \in 1..Len(hit) |->
                            "<b>" \o hit[i].label \o "</b><br>" \o legend \o ": "
                              \o ToString(hit[i][kind])]]>>

\* the rows zone_df[zone_df['bat'] == batter_name]
ZoneRowsOf(df, batter_name) == {i \in 1..Len(df) : df[i].bat = batter_name}

\* the figure returned for a batter the table does not hold
EmptyFigure(batter_name) ==
    [annotations |-> <<"No data found for batter: " \o batter_name>>,
     traces |-> <<>>]

\* the boundary rope, the 8 division lines and the spokes of a row
WheelFigure(batter_data) ==
    LET zone_data == [z \in 1..8 |->
                        [zone |-> z, label |-> ZONE_MAPPING[z].label,
                         theta |-> ZONE_MAPPING[z].theta,
                         fours |-> batter_data.fours[z], sixes |-> batter_data.sixes[z]]]
        rope == [name |-> "Boundary Rope", mode |-> "lines",
                 theta |-> [i \in 1..73 |-> 50 * (i - 1)],
                 r |-> [i \in 1..73 |-> ROPE_RADIUS]]
        divisions == [i \in 1..8 |->
                        [name |-> "division", mode |-> "lines",
                         theta |-> <<450 * (i - 1), 450 * (i - 1)>>,
                         r |-> <<0, ROPE_RADIUS>>]]
    IN  [annotations |-> <<>>,
         traces |-> <<rope>> \o divisions
                      \o SpokeTraces(zone_data, "fours", "Fours", 0)
                      \o SpokeTraces(zone_data, "sixes", "Sixes", SixesOffset)]

\* a slip: a batter the table does not hold gets the wheel of a row of zeros
create_wagon_wheel_Default(df, batter_name) ==
    LET batter_zone == ZoneRowsOf(df, batter_name)
    IN  IF batter_zone = {}
        THEN WheelFigure([bat |-> batter_name, fours |-> [z \in 1..8 |-> 0],
                          sixes |-> [z \in 1..8 |-> 0]])
        ELSE WheelFigure(df[Min(batter_zone)])

create_wagon_wheel(df, batter_name) ==
    LET batter_zone == ZoneRowsOf(df, batter_name)
    IN  IF batter_zone = {}
        THEN EmptyFigure(batter_name)
        ELSE WheelFigure(df[Min(batter_zone)])

(***************************************************************************)
(* SpecWheel: the wagon wheel of a zone table of two rows.  The first row  *)
(* has at most MaxSpokes zones with a count above zero, over fours and     *)
(* sixes together; the second is the row of validate_zone_positions.       *)
(***************************************************************************)
MaxSpokes == 2

\* the largest count of a zone
MaxCount == 17

\* cell z is the fours of zone z, cell 8 + z the sixes of zone z
ZoneCells == 1..16

ZoneFrames ==
    {<<[bat |-> "Batter 1",
        fours |-> [z \in 1..8 |->
                     IF z \notin hits THEN 0 ELSE IF z = Min(hits) THEN c ELSE 1],
        sixes |-> [z \in 1..8 |->
                     IF (8 + z) \notin hits THEN 0 ELSE IF 8 + z = Min(hits) THEN c ELSE 1]],
       [bat |-> "Test Batter",
        fours |-> [z \in 1..8 |-> 5],
        sixes |-> [z \in 1..8 |-> 3]]>> :
        hits \in {h \in SUBSET ZoneCells : Cardinality(h) <= MaxSpokes},
        c \in 1..MaxCount}

BatterNames == {"Batter 1", "Test Batter", "Batter 2"}

InitWheel ==
    /\ batting_df = NoFrame
    /\ zone_df \in ZoneFrames
    /\ call = NoCall

CreateWagonWheel ==
    \E batter_name \in BatterNames :
        /\ call' = [op |-> "create_wagon_wheel", batter_name |-> batter_name,
                    raised |-> "none",
                    result |-> create_wagon_wheel(zone_df, batter_name)]
        /\ UNCHANGED <<batting_df, zone_df>>

NextWheel == CreateWagonWheel

SpecWheel == InitWheel /\ [][NextWheel]_vars

(***************************************************************************)
(* utils.py: validate_writeup.  Messages are the formatted strings.        *)
(***************************************************************************)
DefaultMaxWords == 150

DefaultMaxLines == 10

\* fewer insights than this is a warning
MinInsights == 3

WordError(word_count, max_words) ==
    "Word count (" \o ToString(word_count) \o ") exceeds limit ("
      \o ToString(max_words) \o ")"

LineWarning(line_count, max_lines) ==
    "Line count (" \o ToString(line_count) \o ") exceeds recommended limit ("
      \o ToString(max_lines) \o ")"

InsightWarning(num_insights) ==
    "Only " \o ToString(num_insights) \o " insights generated (expected 5)"

\* a slip: a word count equal to the limit is an error too
validate_writeup_AtLimit(writeup, max_words, max_lines) ==
    [valid |-> ~(writeup.word_count >= max_words),
     warnings |->
        (IF writeup.line_count > max_lines
         THEN <<LineWarning(writeup.line_count, max_lines)>> ELSE <<>>)
        \o (IF writeup.num_insights < MinInsights
            THEN <<InsightWarning(writeup.num_insights)>> ELSE <<>>),
     errors |-> IF writeup.word_count >= max_words
                THEN <<WordError(writeup.word_count, max_words)>> ELSE <<>>]

\* a slip: the line count is compared with the word limit
validate_writeup_WordLimit(writeup, max_words, max_lines) ==
    [valid |-> ~(writeup.word_count > max_words),
     warnings |->
        (IF writeup.line_count > max_words
         THEN <<LineWarning(writeup.line_count, max_lines)>> ELSE <<>>)
        \o (IF writeup.num_insights < MinInsights
            THEN <<InsightWarning(writeup.num_insights)>> ELSE <<>>),
     errors |-> IF writeup.word_count > max_words
                THEN <<WordError(writeup.word_count, max_words)>> ELSE <<>>]

\* a slip: too few insights are an error
validate_writeup_InsightError(writeup, max_words, max_lines) ==
    [valid |-> ~(writeup.word_count > max_words \/ writeup.num_insights < MinInsights),
     warnings |->
        IF writeup.line_count > max_lines
        THEN <<LineWarning(writeup.line_count, max_lines)>> ELSE <<>>,
     errors |->
        (IF writeup.word_count > max_words
         THEN <<WordError(writeup.word_count, max_words)>> ELSE <<>>)
        \o (IF writeup.num_insights < MinInsights
            THEN <<InsightWarning(writeup.num_insights)>> ELSE <<>>)]

validate_writeup(writeup, max_words, max_lines) ==
    [valid |-> ~(writeup.word_count > max_words),
     warnings |->
        (IF writeup.line_count > max_lines
         THEN <<LineWarning(writeup.line_count, max_lines)>> ELSE <<>>)
        \o (IF writeup.num_insights < MinInsights
            THEN <<InsightWarning(writeup.num_insights)>> ELSE <<>>),
     errors |-> IF writeup.word_count > max_words
                THEN <<WordError(writeup.word_count, max_words)>> ELSE <<>>]

(***************************************************************************)
(* SpecValidate: validation as test_validation.py runs it, of the          *)
(* write-up generated for a player, and of write-up dictionaries whose     *)
(* counts lie around the limits.                                           *)
(***************************************************************************)
\* how far the counts of a given dictionary lie from a limit
CountSlack == 2

KindsValidate == {"high"}

WordCounts ==
    {0, 200} \cup ((DefaultMaxWords - 2 * CountSlack)..(DefaultMaxWords + CountSlack))

LineCounts == {0, 12} \cup ((DefaultMaxLines - 2 * CountSlack)..(DefaultMaxLines + CountSlack))

WriteupDicts ==
    [word_count : WordCounts, line_count : LineCounts, num_insights : 0..5]

\* the limits a caller passes: the defaults, or tighter ones
MaxWordsArgs == {DefaultMaxWords, DefaultMaxWords - CountSlack}

MaxLinesArgs == {DefaultMaxLines, DefaultMaxLines - CountSlack}

InitValidate ==
    \/ /\ batting_df \in BattingFrames(KindsValidate, Styles)
       /\ zone_df = NoFrame
       /\ call = NoCall
    \/ /\ batting_df = NoFrame
       /\ zone_df = NoFrame
       /\ call \in {[op |-> "given", raised |-> "none", result |-> w] : w \in WriteupDicts}

GenerateForValidation ==
    /\ call = NoCall
    /\ \E k \in 1..Len(team_df) :
          LET batter_data == merge_data(batting_df, team_df)[k]
          IN  call' = Returned([op |-> "generate_writeup", batter_id |-> team_df[k].p_bat],
                               generate_writeup(batting_df, batter_data))
    /\ UNCHANGED <<batting_df, zone_df>>

ValidateWriteup ==
    /\ call.op \in {"generate_writeup", "given"}
    /\ call.raised = "none"
    /\ \E max_words \in MaxWordsArgs, max_lines \in MaxLinesArgs :
          call' = [op |-> "validate_writeup", raised |-> "none",
                   generated |-> (call.op = "generate_writeup"),
                   writeup |-> call.result,
                   max_words |-> max_words, max_lines |-> max_lines,
                   result |-> validate_writeup(call.result, max_words, max_lines)]
    /\ UNCHANGED <<batting_df, zone_df>>

NextValidate == GenerateForValidation \/ ValidateWriteup

SpecValidate == InitValidate /\ [][NextValidate]_vars

(***************************************************************************)
(* Properties                                                              *)
(***************************************************************************)
WriteupDone == call.op = "generate_writeup" /\ call.raised = "none"

StatsDone == call.op = "get_all_length_line_stats" /\ call.raised = "none"

\* the row of the merged table a write-up was asked for
BatterDataOf(batter_id) ==
    merge_data(batting_df, team_df)[CHOOSE k \in 1..Len(team_df) : team_df[k].p_bat = batter_id]

\* what each of the five generators returns for that row, asked on its own
GeneratorOutputs(batter_id) ==
    LET batter_data == BatterDataOf(batter_id)
        stats == get_all_length_line_stats(batting_df, batter_id)
    IN  [Length |-> generate_length_insight(stats, FALSE).insight,
         Line |-> generate_line_insight(stats, FALSE).insight,
         Shots |-> generate_shot_insight(batter_data),
         Boundaries |-> generate_boundary_insight(batter_data, batter_data.batting_hand),
         Dismissals |-> generate_dismissal_insight(batter_data, batter_data.batting_hand)]

\* C1: a write-up holds between 0 and 5 insights, and num_insights is both the
\* length of the insight list and the number of the five generators (Length,
\* Line, Shots, Boundaries, Dismissals) that returned an insight.
C1_InsightCount ==
    WriteupDone =>
        LET w == call.result
            out == GeneratorOutputs(call.batter_id)
        IN  /\ w.num_insights = Len(w.insights)
            /\ w.num_insights \in 0..5
            /\ w.num_insights = Cardinality({g \in DOMAIN out : out[g] # None})
            /\ \A i \in 1..Len(w.insights) : w.insights[i] # None

\* a write-up in which some generators returned an insight and others none
C1_Witness ==
    /\ WriteupDone
    /\ call.result.num_insights = 3
    /\ GeneratorOutputs(call.batter_id).Length # None
    /\ GeneratorOutputs(call.batter_id).Line = None

\* the metric pairs a write-up prints, in the order they are printed: those of
\* the Length insight, then those of the Line insight, strengths before weaknesses
RECURSIVE PrintedPairs(_)
PrintedPairs(insights) ==
    IF insights = <<>> THEN <<>>
    ELSE (IF Head(insights).label \in {"Length", "Line"}
          THEN Head(insights).strengths \o Head(insights).weaknesses
          ELSE <<>>) \o PrintedPairs(Tail(insights))

RECURSIVE CountWord(_, _)
CountWord(words, w) ==
    IF words = <<>> THEN 0
    ELSE (IF Head(words) = w THEN 1 ELSE 0) + CountWord(Tail(words), w)

\* the number of metric pairs the text of a write-up prints as "<avg> avg; <sr> SR"
VerboseCount(w) == CountWord(Flatten(w.writeup), "avg;")

CompactCount(w) ==
    Len(SelectSeq(PrintedPairs(w.insights), LAMBDA p : p.form = "subsequent"))

HasLabel(w, label) == \E i \in 1..Len(w.insights) : w.insights[i].label = label

\* C2 as stated: every write-up prints exactly one metric pair in the verbose
\* "avg; SR" form.
C2_ExactlyOneVerbose == WriteupDone => VerboseCount(call.result) = 1

\* C2 amended: a write-up prints at most one metric pair in the verbose form,
\* exactly one when it holds a Length or a Line insight and none when it holds
\* neither; every other metric pair is printed in the compact form.
C2_AtMostOneVerbose ==
    WriteupDone =>
        LET w == call.result
        IN  /\ VerboseCount(w) <= 1
            /\ VerboseCount(w) = 1 <=> (HasLabel(w, "Length") \/ HasLabel(w, "Line"))
            /\ VerboseCount(w) + CompactCount(w) = Len(PrintedPairs(w.insights))

\* a write-up that prints four metric pairs, over both insights
C2_Witness ==
    /\ WriteupDone
    /\ HasLabel(call.result, "Length")
    /\ HasLabel(call.result, "Line")
    /\ Len(PrintedPairs(call.result.insights)) >= 3

\* C3: in the order Length strengths, Length weaknesses, Line strengths, Line
\* weaknesses, the first metric pair printed is verbose and every later one is
\* compact; the Line insight holds the verbose pair only when the write-up has
\* no Length insight.
C3_FirstPairOnly ==
    WriteupDone =>
        LET w == call.result
            pairs == PrintedPairs(w.insights)
        IN  /\ \A i \in 1..Len(pairs) : (pairs[i].form = "first") <=> (i = 1)
            /\ \A i \in 1..Len(w.insights) :
                 (/\ w.insights[i].label = "Line"
                  /\ \E p \in Range(w.insights[i].strengths \o w.insights[i].weaknesses) :
                        p.form = "first")
                 => ~HasLabel(w, "Length")
            /\ \A i \in 1..Len(w.insights) :
                 (w.insights[i].label = "Line" /\ ~HasLabel(w, "Length"))
                 => (w.insights[i].strengths \o w.insights[i].weaknesses)[1].form = "first"

\* a Length insight with a strength and a weakness, followed by a Line insight
C3_Witness ==
    /\ WriteupDone
    /\ HasLabel(call.result, "Length")
    /\ HasLabel(call.result, "Line")
    /\ call.result.insights[1].strengths # <<>>
    /\ call.result.insights[1].weaknesses # <<>>

NameSeq(entries) == [i \in 1..Len(entries) |-> entries[i].name]

NoDuplicates(s) == \A i, k \in 1..Len(s) : s[i] = s[k] => i = k

Disjoint(o) ==
    /\ Range(NameSeq(o.strengths)) \cap Range(NameSeq(o.weaknesses)) = {}
    /\ NoDuplicates(NameSeq(o.strengths))
    /\ NoDuplicates(NameSeq(o.weaknesses))

\* C4: in the outlier result of either dimension no category is both a strength
\* and a weakness, and no category is listed twice in one list.
C4_Disjoint ==
    StatsDone =>
        /\ Disjoint(call.result.length_outliers)
        /\ Disjoint(call.result.line_outliers)

\* a result with two strengths and a weakness in one dimension
C4_Witness ==
    /\ StatsDone
    /\ Len(call.result.length_outliers.strengths) >= 2
    /\ call.result.length_outliers.weaknesses # <<>>

\* the average columns whose non-missing values, at least 2, are all the same
FlatColumns ==
    {c \in [dimension : {"length", "line"}, value : Range(LENGTH_COLS) \cup Range(LINE_COLS)] :
        /\ get_avg_col(c.dimension, c.value) \in DOMAIN batting_df.col
        /\ c.value \in Range(IF c.dimension = "length" THEN LENGTH_COLS ELSE LINE_COLS)
        /\ Len(dropna(batting_df.col[get_avg_col(c.dimension, c.value)])) >= 2
        /\ Cardinality(Range(dropna(batting_df.col[get_avg_col(c.dimension, c.value)]))) = 1}

OutliersOf(r, dimension) ==
    IF dimension = "length" THEN r.length_outliers ELSE r.line_outliers

\* C5: for an average column whose non-missing values (at least 2) have
\* standard deviation 0, the z-score of every batter is exactly 0, and the
\* category is in no batter's strengths or weaknesses.
C5_ZeroDeviation ==
    \A c \in FlatColumns :
        /\ \A i \in 1..Len(batting_df.batter_id) :
              calculate_z_scores(batting_df, get_avg_col(c.dimension, c.value))[i] = ZZero
        /\ StatsDone =>
              replace_underscore(c.value) \notin
                 Range(NameSeq(OutliersOf(call.result, c.dimension).strengths))
                   \cup Range(NameSeq(OutliersOf(call.result, c.dimension).weaknesses))

\* a table with such a column, and a batter with an outlier in another column
C5_Witness ==
    /\ StatsDone
    /\ \E c \in FlatColumns : c.dimension = "length"
    /\ call.result.length_outliers.strengths # <<>>

ZoneCall == call.op = "get_zone_name"

OtherHand(hand) == IF hand = "LHB" THEN "RHB" ELSE "LHB"

C7_InvalidZoneRaised ==
    (ZoneCall /\ call.zone_number \notin 1..8) => call.raised = "InvalidZone"

\* C7 amended: for a zone number outside 1..8 the zone mapper raises nothing and
\* returns the default label "Zone <number>", for either batting hand.
C7_DefaultLabel ==
    (ZoneCall /\ call.zone_number \notin 1..8) =>
        /\ call.raised = "none"
        /\ call.result = "Zone " \o ToString(call.zone_number)
        /\ call.result \notin Range(RHB_ZONES) \cup Range(LHB_ZONES)

\* zone 9 looked up for a left-hander
C7_Witness ==
    ZoneCall /\ call.zone_number = 9 /\ call.batting_hand = "LHB" /\ call.result = "Zone 9"

\* C8: a write-up asked for a batter id the batting table does not hold gives
\* a result, and no exception leaves generate_writeup.
C8_AbsentBatterNoException ==
    (call.op = "generate_writeup" /\ call.batter_id \notin Range(batting_df.batter_id))
        => call.raised = "none"

WheelCall == call.op = "create_wagon_wheel"

Found == WheelCall /\ ZoneRowsOf(zone_df, call.batter_name) # {}

\* C9: create_wagon_wheel for a name the zone table does not hold returns a
\* figure with the "No data found" message and no trace at all: no rope, no
\* division lines, no spokes; it raises nothing.
C9_NoDataFigure ==
    (WheelCall /\ ZoneRowsOf(zone_df, call.batter_name) = {}) =>
        /\ call.raised = "none"
        /\ call.result.annotations = <<"No data found for batter: " \o call.batter_name>>
        /\ call.result.traces = <<>>

\* the wagon wheel asked for a batter the table does not hold
C9_Witness ==
    /\ WheelCall
    /\ call.batter_name = "Batter 2"
    /\ call.result.traces = <<>>
    /\ zone_df[1].fours[1] > 0

\* the traces of a figure with the legend name and the mode
TracesOf(fig, name, mode) ==
    SelectSeq(fig.traces, LAMBDA t : t.name = name /\ t.mode = mode)

\* the counts of the row the wheel is drawn for
CountsOf(kind) == zone_df[Min(ZoneRowsOf(zone_df, call.batter_name))][kind]

SpokesAsCounted(fig, legend, counts) ==
    LET nonzero == {z \in 1..8 : counts[z] # 0}
        lines == TracesOf(fig, legend, "lines")
        markers == TracesOf(fig, legend, "markers")
    IN  IF nonzero = {}
        THEN lines = <<>> /\ markers = <<>>
        ELSE /\ Len(lines) = 1 /\ Len(markers) = 1
             /\ Range(markers[1].zone) = nonzero
             /\ Len(markers[1].zone) = Cardinality(nonzero)
             /\ Len(lines[1].r) = 3 * Cardinality(nonzero)
             /\ \A i \in 1..Cardinality(nonzero) :
                  /\ lines[1].r[3 * i - 2] = 0
                  /\ lines[1].r[3 * i - 1] = ROPE_RADIUS
                  /\ lines[1].theta[3 * i - 2] = lines[1].theta[3 * i - 1]
                  /\ lines[1].theta[3 * i - 1] = markers[1].theta[i]
                  /\ markers[1].r[i] = ROPE_RADIUS

\* C10: for fours and for sixes, a spoke is drawn for a zone exactly when the
\* zone's count is not zero; every spoke runs from radius 0 to ROPE_RADIUS
\* whatever the count, and its end marker sits at ROPE_RADIUS.
C10_SpokesToRope ==
    Found =>
        /\ SpokesAsCounted(call.result, "Fours", CountsOf("fours"))
        /\ SpokesAsCounted(call.result, "Sixes", CountsOf("sixes"))

\* a wheel with two fours spokes of different counts and no sixes spoke
C10_Witness ==
    /\ Found
    /\ call.batter_name = "Batter 1"
    /\ \E z1, z2 \in 1..8 :
          CountsOf("fours")[z1] = 1 /\ CountsOf("fours")[z2] > 10
    /\ \A z \in 1..8 : CountsOf("sixes")[z] = 0
    /\ Len(TracesOf(call.result, "Fours", "markers")[1].zone) = 2

\* the angle of zone k in tenths of a degree: 22.5 + 45 * (k - 1) degrees
ZoneAngle(k) == 225 + 450 * (k - 1)

\* the end markers of a kind, as a set of [zone, theta, size, count]
MarkersOf(fig, legend, kind) ==
    LET markers == TracesOf(fig, legend, "markers")
    IN  IF markers = <<>> THEN {}
        ELSE {[zone |-> markers[1].zone[i], theta |-> markers[1].theta[i],
               size |-> markers[1].size[i],
               count |-> CountsOf(kind)[markers[1].zone[i]]] :
                 i \in 1..Len(markers[1].zone)}

\* the line segments of a kind, as a set of angles
SpokeAngles(fig, legend) ==
    LET lines == TracesOf(fig, legend, "lines")
    IN  IF lines = <<>> THEN {}
        ELSE {lines[1].theta[i] : i \in {k \in 1..Len(lines[1].theta) : k % 3 # 0}}

\* C11: a fours spoke of zone k is drawn at 22.5 + 45 * (k - 1) degrees and a
\* sixes spoke of zone k at that angle plus 5 degrees, for every zone; a batter
\* with fours and sixes in zone 1 only gets exactly one fours spoke and one
\* sixes spoke, at different angles.
C11_SpokeAngles ==
    Found =>
        LET fours == MarkersOf(call.result, "Fours", "fours")
            sixes == MarkersOf(call.result, "Sixes", "sixes")
        IN  /\ \A m \in fours : m.theta = ZoneAngle(m.zone)
            /\ \A m \in sixes : m.theta = ZoneAngle(m.zone) + 50
            /\ SpokeAngles(call.result, "Fours") = {m.theta : m \in fours}
            /\ SpokeAngles(call.result, "Sixes") = {m.theta : m \in sixes}
            /\ ({z \in 1..8 : CountsOf("fours")[z] # 0} = {1}
                  /\ {z \in 1..8 : CountsOf("sixes")[z] # 0} = {1})
               => /\ Cardinality(fours) = 1 /\ Cardinality(sixes) = 1
                  /\ SpokeAngles(call.result, "Fours") = {225}
                  /\ SpokeAngles(call.result, "Sixes") = {275}

\* the wheel of a batter with fours and sixes in zone 1 only
C11_Witness ==
    /\ Found
    /\ call.batter_name = "Batter 1"
    /\ {z \in 1..8 : CountsOf("fours")[z] # 0} = {1}
    /\ {z \in 1..8 : CountsOf("sixes")[z] # 0} = {1}
    /\ CountsOf("fours")[1] = 5
    /\ Len(TracesOf(call.result, "Sixes", "markers")[1].theta) = 1

\* C12: the size of an end marker is min(8 + 2 * count, 40) of the count of its
\* own zone, for fours and for sixes alike; it lies in 8..40 and does not
\* decrease when the count grows.
C12_MarkerSize ==
    Found =>
        LET all == MarkersOf(call.result, "Fours", "fours")
                     \cup MarkersOf(call.result, "Sixes", "sixes")
        IN  /\ \A m \in all :
                  /\ m.count >= 1
                  /\ m.size = (IF 8 + 2 * m.count < 40 THEN 8 + 2 * m.count ELSE 40)
                  /\ m.size \in 8..40
            /\ \A m, n \in all : m.count <= n.count => m.size <= n.size

\* a wheel with a marker at the upper clamp and a marker below it
C12_Witness ==
    /\ Found
    /\ \E m \in MarkersOf(call.result, "Fours", "fours") : m.count > 16 /\ m.size = 40
    /\ \E m \in MarkersOf(call.result, "Sixes", "sixes") : m.count = 1 /\ m.size = 10

ValidateDone == call.op = "validate_writeup"

\* C13: validate_writeup returns valid = False exactly when word_count >
\* max_words, and then its error list holds the word-count error and nothing
\* else; otherwise the error list is empty, whatever the line count and the
\* number of insights are.
C13_InvalidOnlyOverWords ==
    ValidateDone =>
        LET w == call.writeup
            v == call.result
        IN  /\ v.valid = ~(w.word_count > call.max_words)
            /\ w.word_count > call.max_words
                 => v.errors = <<WordError(w.word_count, call.max_words)>>
            /\ w.word_count <= call.max_words => v.errors = <<>>

\* a dictionary of exactly 150 words, 12 lines and no insight, validated with
\* the default limits
C13_Witness ==
    /\ ValidateDone
    /\ call.max_words = 150 /\ call.max_lines = 10
    /\ call.writeup.word_count = 150
    /\ call.writeup.line_count = 12
    /\ call.writeup.num_insights = 0
    /\ call.result.valid

\* C14: the warnings hold the line-count warning exactly when line_count >
\* max_lines; a write-up over the line limit only (words within the limit, at
\* least 3 insights) is valid, with that one warning and no error.
C14_LineWarning ==
    ValidateDone =>
        LET w == call.writeup
            v == call.result
            warning == LineWarning(w.line_count, call.max_lines)
        IN  /\ (warning \in Range(v.warnings)) <=> (w.line_count > call.max_lines)
            /\ (/\ w.line_count > call.max_lines
                 /\ w.word_count <= call.max_words
                 /\ w.num_insights >= 3)
               => /\ v.valid
                  /\ v.warnings = <<warning>>
                  /\ v.errors = <<>>

\* a dictionary of 12 lines validated with the default limits
C14_Witness ==
    /\ ValidateDone
    /\ call.max_words = 150 /\ call.max_lines = 10
    /\ call.writeup.line_count = 12
    /\ call.writeup.word_count = 148
    /\ call.writeup.num_insights = 5
    /\ Len(call.result.warnings) = 1

\* C15: the warnings hold the insight-count warning exactly when num_insights <
\* 3; it never adds an error or makes the result invalid; and a generation for
\* a batter of the table returns its write-up however few insights it has.
C15_FewInsightsWarning ==
    /\ ValidateDone =>
          LET w == call.writeup
              v == call.result
              warning == InsightWarning(w.num_insights)
          IN  /\ (warning \in Range(v.warnings)) <=> (w.num_insights < 3)
              /\ warning \notin Range(v.errors)
              /\ w.word_count <= call.max_words => v.valid /\ v.errors = <<>>
              /\ call.generated => Len(w.insights) = w.num_insights
    /\ (call.op = "generate_writeup" /\ call.batter_id \in Range(batting_df.batter_id))
          => /\ call.raised = "none"
             /\ Len(call.result.insights) = call.result.num_insights
             /\ count_lines(call.result.writeup) = call.result.num_insights

\* a generated write-up of 2 insights, validated
C15_Witness ==
    /\ ValidateDone
    /\ call.generated
    /\ call.writeup.num_insights = 2
    /\ call.result.valid
    /\ call.result.warnings = <<InsightWarning(2)>>

\* the batter is a row of the table and every length and line metric of the
\* row, average and strike rate, is missing
AllMissing(batter_id) ==
    /\ RowsOf(batting_df, batter_id) # {}
    /\ \A key \in MetricKeys : isna(batting_df.col[key][Min(RowsOf(batting_df, batter_id))])

NoOutliers == [strengths |-> <<>>, weaknesses |-> <<>>]

\* some batter of the table has an outlier
PopulationHasOutlier ==
    \E b \in Range(batting_df.batter_id) :
        detect_length_outliers(batting_df, b) # NoOutliers
          \/ detect_line_outliers(batting_df, b) # NoOutliers

\* C16: for a batter of the table whose length and line metrics are all
\* missing, outlier detection raises nothing and returns empty strengths and
\* weaknesses in both dimensions, and the write-up holds neither a Length nor a
\* Line insight, whatever the other rows hold.
C16_AllMissingBatter ==
    (call.op \in {"get_all_length_line_stats", "generate_writeup"}
       /\ AllMissing(call.batter_id)) =>
        /\ call.raised = "none"
        /\ call.op = "get_all_length_line_stats" =>
              /\ call.result.length_outliers = NoOutliers
              /\ call.result.line_outliers = NoOutliers
        /\ call.op = "generate_writeup" =>
              /\ ~HasLabel(call.result, "Length")
              /\ ~HasLabel(call.result, "Line")
              /\ \A i \in 1..Len(call.result.writeup) :
                    call.result.writeup[i] # <<>> =>
                       Head(call.result.writeup[i]) \notin {"**Length:**", "**Line:**"}

\* the write-up of batter 1, without metrics, in a table where another batter
\* has an outlier; the write-up holds the other three insights
C16_Witness ==
    /\ WriteupDone
    /\ call.batter_id = 1
    /\ AllMissing(1)
    /\ PopulationHasOutlier
    /\ call.result.num_insights = 3

\* what the call of frame c returns when it runs alone
Alone(c) ==
    generate_writeup(batting_df, merge_data(batting_df, team_df)[call.frames[c].k])

\* C17: of two write-up generations for different batters whose steps
\* interleave over one batting table, each returns (or raises) exactly what it
\* does when run alone; while a call runs, its first-metric flag is set exactly
\* when the call itself has printed a metric pair.
C17_ConcurrentAsAlone ==
    call.op = "concurrent" =>
        \A c \in Calls :
            LET f == call.frames[c]
            IN  /\ f.pc = "done" =>
                     IF IsError(Alone(c))
                     THEN f.raised = Alone(c).error
                     ELSE f.raised = "none" /\ f.result = Alone(c)
                /\ f.pc \in {"line", "shots", "boundaries", "dismissals", "finish"} =>
                     (call.flags[c] <=> PrintedPairs(f.insights) # <<>>)

\* both calls finished, for different players, each with a verbose pair of its own
C17_Witness ==
    /\ call.op = "concurrent"
    /\ \A c \in Calls :
          /\ call.frames[c].pc = "done"
          /\ call.frames[c].raised = "none"
          /\ VerboseCount(call.frames[c].result) = 1
    /\ call.frames[1].k # call.frames[2].k

\* the place of an insight in the order Length, Line, Shots, Boundaries,
\* Dismissals, read off the label its text starts with
Place(insight) ==
    CASE Head(insight.words) = "**Length:**" -> 1
      [] Head(insight.words) = "**Line:**" -> 2
      [] Head(insight.words) = "**Shots:**" -> 3
      [] Head(insight.words) = "**Boundaries:**" -> 4
      [] Head(insight.words) = "**Dismissals:**" -> 5
      [] OTHER -> 0

\* C18: the insights of a write-up, in the list and in the text, are in the
\* order Length, Line, Shots, Boundaries, Dismissals, each label at most once.
C18_InsightOrder ==
    WriteupDone =>
        LET ins == call.result.insights
            text == SelectSeq(call.result.writeup, LAMBDA line : line # <<>>)
        IN  /\ \A i \in 1..Len(ins) : Place(ins[i]) \in 1..5
            /\ \A i, k \in 1..Len(ins) : i < k => Place(ins[i]) < Place(ins[k])
            /\ text = [i \in 1..Len(ins) |-> ins[i].words]

\* a write-up of the Length, Shots and Dismissals insights, Line and Boundaries
\* omitted
C18_Witness ==
    /\ WriteupDone
    /\ Len(call.result.insights) = 3
    /\ Place(call.result.insights[1]) = 1
    /\ Place(call.result.insights[2]) = 3
    /\ Place(call.result.insights[3]) = 5

\* the categories of a dimension
ColsOf(dimension) == IF dimension = "length" THEN LENGTH_COLS ELSE LINE_COLS

\* the row of the batter the call was made for
CallRow == Min(RowsOf(batting_df, call.batter_id))

\* the z-score of the batter's average in a category
AvgZ(dimension, value) ==
    calculate_z_scores(batting_df, get_avg_col(dimension, value))[CallRow]

\* the batter has an average and a strike rate in the category
HasPair(dimension, value) ==
    /\ notna(batting_df.col[get_avg_col(dimension, value)][CallRow])
    /\ notna(batting_df.col[get_sr_col(dimension, value)][CallRow])

\* |z| > 3/2, as z^2 > 9/4
Above15(z) == ~z.nan /\ 4 * z.num > 9 * z.den

Listed(entries, value) == replace_underscore(value) \in Range(NameSeq(entries))

\* C19: a category in which the batter has an average and a strike rate is
\* listed exactly when the absolute z-score of the average is strictly above
\* 1.5: among the strengths and not the weaknesses when z is positive, among
\* the weaknesses and not the strengths when z is negative, and in neither list
\* when |z| is 1.5 or less.
C19_StrictThreshold ==
    StatsDone =>
        \A dimension \in {"length", "line"} :
            \A k \in 1..Len(ColsOf(dimension)) :
                LET value == ColsOf(dimension)[k]
                    z == AvgZ(dimension, value)
                    o == OutliersOf(call.result, dimension)
                IN  HasPair(dimension, value) =>
                        /\ Listed(o.strengths, value) <=> (Above15(z) /\ z.sgn > 0)
                        /\ Listed(o.weaknesses, value) <=> (Above15(z) /\ z.sgn < 0)

\* the last batter, with a z-score of exactly 1.5 in the first length category
\* (not listed) and a z-score above it in the second (a strength)
C19_Witness ==
    /\ StatsDone
    /\ call.batter_id = NumBatters
    /\ LET z == AvgZ("length", LENGTH_COLS[1])
       IN  ~z.nan /\ z.sgn > 0 /\ 4 * z.num = 9 * z.den
    /\ ~Listed(call.result.length_outliers.strengths, LENGTH_COLS[1])
    /\ Listed(call.result.length_outliers.strengths, LENGTH_COLS[2])
    /\ call.result.length_outliers.weaknesses # <<>>

\* the rows with a value in a column, and the sums over them
Present(column) ==
    {i \in 1..Len(batting_df.col[column]) : notna(batting_df.col[column][i])}

RECURSIVE SumOver(_, _, _)
SumOver(column, rows, power) ==
    IF rows = {} THEN 0
    ELSE LET i == CHOOSE i \in rows : TRUE
             x == batting_df.col[column][i]
         IN  (IF power = 2 THEN x * x ELSE x) + SumOver(column, rows \ {i}, power)

\* the average columns with at least 2 values, not all the same
SpreadColumns ==
    {column \in {get_avg_col("length", c) : c \in Range(LENGTH_COLS)}
                  \cup {get_avg_col("line", c) : c \in Range(LINE_COLS)} :
        /\ Cardinality(Present(column)) >= 2
        /\ Cardinality({batting_df.col[column][i] : i \in Present(column)}) >= 2}

\* z = (x - mean) / sd, with sd^2 the sum of squared deviations over the
\* non-missing rows divided by divisor: z^2 * (n*Q - S^2) * n = (n*x - S)^2 * divisor
ZScoreIs(z, column, i, divisor) ==
    LET n == Cardinality(Present(column))
        S == SumOver(column, Present(column), 1)
        Q == SumOver(column, Present(column), 2)
        x == batting_df.col[column][i]
    IN  /\ ~z.nan
        /\ z.sgn = Sign(n * x - S)
        /\ z.num * (n * Q - S * S) * n = (n * x - S) * (n * x - S) * divisor * z.den

\* C20 as stated: the z-score of a value is (value - mean) / standard
\* deviation with the population standard deviation (divisor n) of the
\* non-missing values of the column.
C20_PopulationDeviation ==
    StatsDone =>
        \A column \in SpreadColumns : \A i \in Present(column) :
            ZScoreIs(calculate_z_scores(batting_df, column)[i], column, i,
                     Cardinality(Present(column)))

\* C20 amended: in a column with at least 2 non-missing values, not all equal,
\* the z-score of a value is (value - mean) / standard deviation, with the mean
\* and the sample standard deviation (divisor n - 1) of the non-missing values
\* of the column; rows with a missing value count in neither, and the z-score
\* an outlier is listed with is the absolute value of that z-score.
C20_SampleDeviation ==
    StatsDone =>
        /\ \A column \in SpreadColumns : \A i \in Present(column) :
              ZScoreIs(calculate_z_scores(batting_df, column)[i], column, i,
                       Cardinality(Present(column)) - 1)
        /\ \A dimension \in {"length", "line"} :
              \A k \in 1..Len(ColsOf(dimension)) :
                 LET o == OutliersOf(call.result, dimension)
                     name == replace_underscore(ColsOf(dimension)[k])
                     column == get_avg_col(dimension, ColsOf(dimension)[k])
                 IN  \A e \in Range(o.strengths) \cup Range(o.weaknesses) :
                        e.name = name =>
                           /\ column \in SpreadColumns
                           /\ ZScoreIs([e.z EXCEPT !.sgn =
                                          IF e \in Range(o.strengths) THEN 1 ELSE 0 - 1],
                                       column, CallRow, Cardinality(Present(column)) - 1)

\* the last batter, listed with a strength in a column in which the first
\* batter has no value
C20_Witness ==
    /\ StatsDone
    /\ call.batter_id = NumBatters
    /\ get_avg_col("length", LENGTH_COLS[1]) \in SpreadColumns
    /\ isna(batting_df.col[get_avg_col("length", LENGTH_COLS[1])][1])
    /\ Listed(call.result.length_outliers.strengths, LENGTH_COLS[1])

\* the categories of a dimension whose average column holds fewer than 2 values
FewValues(dimension) ==
    {value \in Range(ColsOf(dimension)) :
        Cardinality(Present(get_avg_col(dimension, value))) < 2}

\* C21: when the average column of a category holds fewer than 2 non-missing
\* values, the z-score of every batter in it is missing, and the category is
\* in no batter's strengths or weaknesses, the batter with the one value
\* included.
C21_FewerThanTwoValues ==
    \A dimension \in {"length", "line"} : \A value \in FewValues(dimension) :
        /\ \A i \in 1..Len(batting_df.batter_id) :
              calculate_z_scores(batting_df, get_avg_col(dimension, value))[i].nan
        /\ StatsDone =>
              /\ ~Listed(OutliersOf(call.result, dimension).strengths, value)
              /\ ~Listed(OutliersOf(call.result, dimension).weaknesses, value)

\* the outliers of the last batter, who alone has a value (average and strike
\* rate) in the first length category
C21_Witness ==
    /\ StatsDone
    /\ call.batter_id = NumBatters
    /\ Present(get_avg_col("length", LENGTH_COLS[1])) = {NumBatters}
    /\ HasPair("length", LENGTH_COLS[1])
    /\ call.result.length_outliers.strengths # <<>>

\* C22: a category in which the batter's average or strike rate is missing is
\* in neither list of the batter, whatever the z-score of the average; the
\* call raises nothing, and the batter's other categories are listed as their
\* z-scores say.
C22_MissingSkipped ==
    (call.op = "get_all_length_line_stats" /\ RowsOf(batting_df, call.batter_id) # {}) =>
        /\ call.raised = "none"
        /\ \A dimension \in {"length", "line"} :
              \A k \in 1..Len(ColsOf(dimension)) :
                 LET value == ColsOf(dimension)[k]
                     o == OutliersOf(call.result, dimension)
                     listed == Listed(o.strengths, value) \/ Listed(o.weaknesses, value)
                 IN  IF HasPair(dimension, value)
                     THEN listed <=> Above15(AvgZ(dimension, value))
                     ELSE ~listed

\* the last batter, without a strike rate in the first length category, where
\* the z-score of the average is above 1.5, and listed with the second
C22_Witness ==
    /\ StatsDone
    /\ call.batter_id = NumBatters
    /\ isna(batting_df.col[get_sr_col("length", LENGTH_COLS[1])][NumBatters])
    /\ Above15(AvgZ("length", LENGTH_COLS[1]))
    /\ ~Listed(call.result.length_outliers.strengths, LENGTH_COLS[1])
    /\ Listed(call.result.length_outliers.strengths, LENGTH_COLS[2])

\* the magnitude of entry a is at least that of entry b (z^2 = num / den)
AtLeast(a, b) == a.z.num * b.z.den >= b.z.num * a.z.den

Descending(entries) ==
    \A i \in 1..(Len(entries) - 1) : AtLeast(entries[i], entries[i + 1])

\* C23: in both dimensions the strengths and the weaknesses are sorted by
\* descending z-score magnitude: every entry's magnitude is at least that of
\* the entry after it.
C23_SortedByMagnitude ==
    StatsDone =>
        \A dimension \in {"length", "line"} :
            /\ Descending(OutliersOf(call.result, dimension).strengths)
            /\ Descending(OutliersOf(call.result, dimension).weaknesses)

\* two strengths listed against the column order: the second length category
\* first, with the strictly larger z-score
C23_Witness ==
    /\ StatsDone
    /\ Len(call.result.length_outliers.strengths) = 2
    /\ call.result.length_outliers.strengths[1].name = replace_underscore(LENGTH_COLS[2])
    /\ call.result.length_outliers.strengths[2].name = replace_underscore(LENGTH_COLS[1])
    /\ ~AtLeast(call.result.length_outliers.strengths[2],
                call.result.length_outliers.strengths[1])

\* the outlier result the write-up of the call was generated from
StatsOfCall == get_all_length_line_stats(batting_df, call.batter_id)

\* the insights of a write-up with the label: none or one
InsightsOf(w, label) == SelectSeq(w.insights, LAMBDA ins : ins.label = label)

Has(words, w) == CountWord(words, w) > 0

FirstTwo(entries) == [i \in 1..(IF Len(entries) < 2 THEN Len(entries) ELSE 2) |-> entries[i].name]

\* one dimension of C24: the insight with the label against the outlier result
\* o, with the words that open its three clauses
ClausesAsListed(w, label, o, strong, weak, advise) ==
    LET found == InsightsOf(w, label)
    IN  /\ Len(found) = (IF o.strengths = <<>> /\ o.weaknesses = <<>> THEN 0 ELSE 1)
        /\ found # <<>> =>
              LET ins == found[1]
              IN  /\ NameSeq(ins.strengths) = FirstTwo(o.strengths)
                  /\ NameSeq(ins.weaknesses) = FirstTwo(o.weaknesses)
                  /\ Has(ins.words, strong) <=> (o.strengths # <<>>)
                  /\ Has(ins.words, weak) <=> (o.weaknesses # <<>>)
                  /\ Has(ins.words, advise) <=> (o.weaknesses # <<>>)
                  /\ CountWord(ins.words, "and")
                       = (IF Len(o.strengths) >= 2 THEN 1 ELSE 0)
                           + (IF Len(o.weaknesses) >= 2 THEN 1 ELSE 0)

\* C24: a Length or Line insight prints the first two strengths and the first
\* two weaknesses of the outlier result and no more; it has the strengths
\* clause exactly when there is a strength, the weaknesses clause and the advice
\* clause exactly when there is a weakness, and is omitted exactly when there
\* is neither.
C24_TopTwoPrinted ==
    WriteupDone =>
        /\ ClausesAsListed(call.result, "Length", StatsOfCall.length_outliers,
                           "Strong", "weak", "Target")
        /\ ClausesAsListed(call.result, "Line", StatsOfCall.line_outliers,
                           "Excels", "struggles", "Bowl")

\* a Length insight for three strengths and no weakness: two are printed
C24_Witness ==
    /\ WriteupDone
    /\ Len(StatsOfCall.length_outliers.strengths) = 3
    /\ StatsOfCall.length_outliers.weaknesses = <<>>
    /\ Len(InsightsOf(call.result, "Length")[1].strengths) = 2
    /\ ~Has(InsightsOf(call.result, "Length")[1].words, "Target")

\* the words of a text after the first occurrence of w
RECURSIVE After(_, _)
After(words, w) ==
    IF words = <<>> THEN <<>>
    ELSE IF Head(words) = w THEN Tail(words)
    ELSE After(Tail(words), w)

\* one dimension of C25: the advice clause closes the insight and names the
\* first weakness of the outlier result o
AdviceNamesFirst(w, label, o, advise) ==
    (InsightsOf(w, label) # <<>> /\ o.weaknesses # <<>>) =>
        LET ins == InsightsOf(w, label)[1]
        IN  /\ ins.advice = <<o.weaknesses[1].name>>
            /\ After(ins.words, advise)
                 = WithSuffix(SplitWords(o.weaknesses[1].name), ".")

\* C25: the advice clause of a Length or Line insight names the first weakness
\* of the sorted list and nothing else, also when two weaknesses are printed.
C25_AdviceFirstWeakness ==
    WriteupDone =>
        /\ AdviceNamesFirst(call.result, "Length", StatsOfCall.length_outliers, "Target")
        /\ AdviceNamesFirst(call.result, "Line", StatsOfCall.line_outliers, "Bowl")

\* two weaknesses are printed, the sort has put the later column first, and the
\* advice names it alone
C25_Witness ==
    /\ WriteupDone
    /\ InsightsOf(call.result, "Length") # <<>>
    /\ Len(InsightsOf(call.result, "Length")[1].weaknesses) = 2
    /\ StatsOfCall.length_outliers.weaknesses[1].name = replace_underscore(LENGTH_COLS[2])
    /\ InsightsOf(call.result, "Length")[1].advice
         = <<replace_underscore(LENGTH_COLS[2])>>

\* listed is the first n of the columns with a non-missing positive percentage,
\* taken by descending percentage, the earlier column first among equals
IsTop(listed, names, pcts, n) ==
    LET Q == {k \in 1..Len(pcts) : notna(pcts[k]) /\ pcts[k] > 0}
        Before(a, b) == pcts[a] > pcts[b] \/ (pcts[a] = pcts[b] /\ a < b)
    IN  /\ Len(listed) = (IF Cardinality(Q) < n THEN Cardinality(Q) ELSE n)
        /\ \E idx \in [1..Len(listed) -> Q] :
              /\ \A i \in 1..Len(listed) :
                    listed[i] = [name |-> names[idx[i]], pct |-> pcts[idx[i]]]
              /\ \A i, k \in 1..Len(listed) : i < k => Before(idx[i], idx[k])
              /\ \A q \in Q \ Range(idx) :
                    \A i \in 1..Len(listed) : Before(idx[i], q)

ShotPcts(batter_data, bowling_type) ==
    [k \in 1..Len(ShotColumns) |->
        batter_data.col[<<"pct_shots_by_shot_type_vs", bowling_type, ShotColumns[k]>>]]

ShotNames == [k \in 1..Len(ShotColumns) |-> shot_name(ShotColumns[k])]

\* the number of words of "<name> (<pct>%)" over a list
RECURSIVE ListedWords(_)
ListedWords(listed) ==
    IF listed = <<>> THEN 0
    ELSE Len(SplitWords(Head(listed).name)) + 1 + ListedWords(Tail(listed))

HalfWords(listed) == IF listed = <<>> THEN 0 ELSE 2 + ListedWords(listed)

\* C26: each half of the Shots insight lists the two shot types of highest
\* non-missing positive percentage, descending, the earlier column first among
\* equals; a half without such a shot is omitted, and the insight is omitted
\* exactly when both halves are empty.
C26_TopShots ==
    WriteupDone =>
        LET batter_data == BatterDataOf(call.batter_id)
            found == InsightsOf(call.result, "Shots")
            pace == get_top_shots(batter_data, "pace", 2)
            spin == get_top_shots(batter_data, "spin", 2)
        IN  /\ IsTop(pace, ShotNames, ShotPcts(batter_data, "pace"), 2)
            /\ IsTop(spin, ShotNames, ShotPcts(batter_data, "spin"), 2)
            /\ Len(found) = (IF pace = <<>> /\ spin = <<>> THEN 0 ELSE 1)
            /\ found # <<>> =>
                  /\ found[1].pace = pace
                  /\ found[1].spin = spin
                  /\ Has(found[1].words, "Pace:") <=> (pace # <<>>)
                  /\ Has(found[1].words, "Spin:") <=> (spin # <<>>)
                  /\ Len(found[1].words) = 1 + HalfWords(pace) + HalfWords(spin)

\* two shots of equal percentage head the pace half in column order, ahead of
\* a third positive one that is left out, and the spin half is omitted
C26_Witness ==
    /\ WriteupDone
    /\ InsightsOf(call.result, "Shots") # <<>>
    /\ InsightsOf(call.result, "Shots")[1].pace
         = <<[name |-> "pull", pct |-> 40], [name |-> "sweep", pct |-> 40]>>
    /\ ShotPcts(BatterDataOf(call.batter_id), "pace")[1] > 0
    /\ InsightsOf(call.result, "Shots")[1].spin = <<>>
    /\ ~Has(InsightsOf(call.result, "Shots")[1].words, "Spin:")

ZonePcts(batter_data, zone_type) ==
    [z \in 1..8 |-> batter_data.col[<<"pct_in_wagon_zone", zone_type, z>>]]

ZoneNamesFor(batting_hand) == [z \in 1..8 |-> get_zone_name(z, batting_hand)]

\* one zone type of C27: the insight with the label against the percentages of
\* the row, catchers being the plural word of the advice, if it has one
ZonesAsRanked(w, batter_data, zone_type, label, plural) ==
    LET found == InsightsOf(w, label)
        pcts == ZonePcts(batter_data, zone_type)
        positive == {z \in 1..8 : notna(pcts[z]) /\ pcts[z] > 0}
    IN  /\ Len(found) = (IF positive = {} THEN 0 ELSE 1)
        /\ found # <<>> =>
              LET ins == found[1]
              IN  /\ IsTop(ins.zones, ZoneNamesFor(batter_data.batting_hand), pcts, 3)
                  /\ ins.advice = Names(Take(ins.zones, 2))
                  /\ Len(ins.advice) = (IF Cardinality(positive) >= 2 THEN 2 ELSE 1)
                  /\ CountWord(ins.words, "and") = Len(ins.advice) - 1
                  /\ plural # "" => (Has(ins.words, plural) <=> Len(ins.advice) = 2)
                  /\ Len(ins.advice) = 2 =>
                        After(ins.words, "and")
                          = WithSuffix(SplitWords(ins.zones[2].name), ".")

\* C27: the Boundaries and the Dismissals insight list the three zones of
\* highest non-missing positive percentage (fewer when fewer qualify) under the
\* names the zone mapper gives for the batter's own hand; the advice names the
\* first two of them, or the only one; the insight is omitted exactly when no
\* zone has a positive percentage.
C27_TopZones ==
    WriteupDone =>
        LET batter_data == BatterDataOf(call.batter_id)
        IN  /\ ZonesAsRanked(call.result, batter_data, "boundaries", "Boundaries", "")
            /\ ZonesAsRanked(call.result, batter_data, "caught_dismissals",
                             "Dismissals", "catchers")

\* a left-hander with five positive boundary zones, zones 4 and 5 equal at the
\* top under their left-handed names, and one caught-dismissal zone
C27_Witness ==
    /\ WriteupDone
    /\ BatterDataOf(call.batter_id).batting_hand = "LHB"
    /\ InsightsOf(call.result, "Boundaries") # <<>>
    /\ InsightsOf(call.result, "Boundaries")[1].zones
         = <<[name |-> "Mid Off", pct |-> 30], [name |-> "Mid On", pct |-> 30],
             [name |-> "Mid Wicket", pct |-> 25]>>
    /\ InsightsOf(call.result, "Boundaries")[1].advice = <<"Mid Off", "Mid On">>
    /\ InsightsOf(call.result, "Dismissals") # <<>>
    /\ InsightsOf(call.result, "Dismissals")[1].advice = <<"Mid On">>

\* the words of each insight, counted one insight at a time
RECURSIVE WordsByInsight(_)
WordsByInsight(insights) ==
    IF insights = <<>> THEN 0
    ELSE Len(Head(insights).words) + WordsByInsight(Tail(insights))

\* C28: line_count of a write-up is its num_insights, the separator lines not
\* being counted, and word_count is the sum of the word counts of its insights;
\* both are 0 for a write-up without insights.
C28_Counts ==
    WriteupDone =>
        /\ call.result.line_count = call.result.num_insights
        /\ call.result.word_count = WordsByInsight(call.result.insights)
        /\ \A i \in 1..Len(call.result.insights) : call.result.insights[i].words # <<>>
        /\ call.result.insights = <<>> =>
              call.result.word_count = 0 /\ call.result.line_count = 0

\* a write-up of five insights: nine lines of text, five of them counted
C28_Witness ==
    /\ WriteupDone
    /\ call.result.num_insights = 5
    /\ Len(call.result.writeup) = 9
    /\ call.result.line_count = 5
    /\ call.result.word_count > 5

\* ways of replacing the non-missing strike rates of a table: every one by the
\* same value, every one by its mirror image, one row's by a far larger value
SrVariations ==
    {[kind |-> "flat", row |-> 0], [kind |-> "mirror", row |-> 0]}
        \cup {[kind |-> "spike", row |-> r] : r \in Batters}

SrChanged(v, i, x) ==
    IF isna(x) THEN x
    ELSE CASE v.kind = "flat" -> 100
           [] v.kind = "mirror" -> 400 - x
           [] v.kind = "spike" -> IF i = v.row THEN 400 ELSE x

\* the table with its strike-rate columns changed, the same cells missing
SrVariant(df, v) ==
    [df EXCEPT !.col =
        [key \in DOMAIN df.col |->
            IF key[1] = "strike_rate_vs_pitch"
            THEN [i \in DOMAIN df.col[key] |-> SrChanged(v, i, df.col[key][i])]
            ELSE df.col[key]]]

\* the categories of a result, in order
Categories(r) ==
    [length_strengths |-> NameSeq(r.length_outliers.strengths),
     length_weaknesses |-> NameSeq(r.length_outliers.weaknesses),
     line_strengths |-> NameSeq(r.line_outliers.strengths),
     line_weaknesses |-> NameSeq(r.line_outliers.weaknesses)]

\* C29: strike-rate values do not influence the classification: a batter gets
\* the same strengths and the same weaknesses, in the same order, from every
\* table that differs from the given one in non-missing strike rates only.
C29_StrikeRateIgnored ==
    StatsDone =>
        \A v \in SrVariations :
            Categories(get_all_length_line_stats(SrVariant(batting_df, v), call.batter_id))
                = Categories(call.result)

\* a batter with a strength whose strike rate, above the mean of its column, is
\* below it in the mirrored table: the two results differ, in the value kept
\* for printing
C29_Witness ==
    /\ StatsDone
    /\ call.result.length_outliers.strengths # <<>>
    /\ LET mirror == SrVariant(batting_df, [kind |-> "mirror", row |-> 0])
           sr_col == get_sr_col("length", LENGTH_COLS[1])
           idx == CallRow
       IN  /\ calculate_z_scores(batting_df, sr_col)[idx].sgn > 0
           /\ calculate_z_scores(mirror, sr_col)[idx].sgn < 0
           /\ get_all_length_line_stats(mirror, call.batter_id) # call.result

\* the table of names the claim gives a batting hand
TableOf(batting_hand) == IF batting_hand = "LHB" THEN LHB_ZONES ELSE RHB_ZONES

\* the zones of an insight are ranked from the row's percentages under the
\* names of the table
NamedFrom(w, batter_data, zone_type, label, table) ==
    InsightsOf(w, label) # <<>> =>
        IsTop(InsightsOf(w, label)[1].zones, table, ZonePcts(batter_data, zone_type), 3)

\* C30: the zone mapper uses the left-hander's table only for the batting hand
\* 'LHB'; for every other value (RHB, a missing hand, another spelling or case)
\* get_zone_name and get_zone_mapping give the right-hander's names, and so do
\* the Boundaries and Dismissals insights of a batter with such a hand.
C30_OnlyExactLHB ==
    /\ (ZoneCall /\ call.zone_number \in 1..8) =>
            call.result = TableOf(call.batting_hand)[call.zone_number]
    /\ call.op = "get_zone_mapping" => call.result = TableOf(call.batting_hand)
    /\ (WriteupDone /\ call.result.batting_hand # "LHB") =>
            LET batter_data == BatterDataOf(call.batter_id)
            IN  /\ NamedFrom(call.result, batter_data, "boundaries", "Boundaries",
                             RHB_ZONES)
                /\ NamedFrom(call.result, batter_data, "caught_dismissals",
                             "Dismissals", RHB_ZONES)

\* a write-up for the hand 'lhb': zones 4 and 5 head the Boundaries insight
\* under their right-handed names, and zone 5 is the Dismissals zone
C30_Witness ==
    /\ WriteupDone
    /\ call.result.batting_hand = "lhb"
    /\ InsightsOf(call.result, "Boundaries") # <<>>
    /\ InsightsOf(call.result, "Boundaries")[1].advice = <<"Mid On", "Mid Off">>
    /\ InsightsOf(call.result, "Dismissals") # <<>>
    /\ InsightsOf(call.result, "Dismissals")[1].advice = <<"Mid Off">>

====
